---- MODULE Spec2Model ----
(***************************************************************************)
(* ExoScout backend: identifier parsing, catalog resolution, feature       *)
(* assembly, classification and artifact caching, modelled as state        *)
(* machines.  Strings that the code inspects character by character are    *)
(* sequences of one-character strings; numbers the code compares are       *)
(* integers in a fixed unit stated where they are introduced.              *)
(***************************************************************************)
EXTENDS Integers, Sequences, FiniteSets, TLC

VARIABLES
    target,      \* detect_mission_and_id: the argument
    parsed,      \* detect_mission_and_id: the outcome (or not yet called)
    rPc,         \* GET /resolve/{target}: where the handler is suspended
    rTarget,     \* GET /resolve/{target}: the path parameter, as received
    rQueries,    \* the query_nasa_tap calls of this request, with their outcomes
    rLookup,     \* how resolve_toi_to_tic / resolve_koi_to_kepid ended
    rResp,       \* the response of GET /resolve/{target}
    store,       \* the model directory: file name -> content
    lru,         \* the lru_cache of get_model_info, least recently used first
    fileReads,   \* file name -> number of joblib.load calls on it so far
    heap,        \* number of artifact objects created so far (the next id is heap + 1)
    pPc,         \* a predict / features request: where the handler is suspended
    pReq,        \* the request: endpoint, mission, target_id, body
    pInfo,       \* info = get_model_info(...), once loaded
    pData,       \* feature_data, once fetched or taken from the body
    pVector,     \* the assembled feature vector x
    pScore,      \* what the scorer returned or raised
    pTrace,      \* the stages this request has run, in order
    pQueries,    \* the query_nasa_tap calls of this request, with their outcomes
    pResp,       \* the response, or the result of ExoplanetClassifier.predict
    clsCache,    \* _model_cache of ml_models: mission -> classifier (obj 0: no entry)
    tPc,         \* worker thread -> where it is inside get_model_info / get_classifier
    tCall,       \* worker thread -> the call it is running
    tGot,        \* worker thread -> what its call returned or raised
    calls,       \* number of calls started so far
    loadLog,     \* the calls completed so far, in the order they completed
    diskcache,   \* cache = dc.Cache(CACHE_DIR) of utils.cache: key -> stored value
    cCall,       \* the call of a cached function in progress, and where it is
    cLog,        \* the calls of cached functions completed so far, in order
    lPc,         \* GET /lightcurve/{mission}/{target_id}: where the download is
    lReq,        \* the request: mission and target_id
    lTried,      \* the identifiers the download strategies have asked for, in order
    lResp        \* the response of GET /lightcurve/{mission}/{target_id}

parseVars == <<target, parsed>>

resolveVars == <<rPc, rTarget, rQueries, rLookup, rResp>>

storeVars == <<store, lru, fileReads, heap>>

predictVars == <<pPc, pReq, pInfo, pData, pVector, pScore, pTrace, pQueries, pResp>>

loadVars == <<clsCache, tPc, tCall, tGot, calls, loadLog>>

cacheVars == <<diskcache, cCall, cLog>>

lightVars == <<lPc, lReq, lTried, lResp>>

vars == <<parseVars, resolveVars, storeVars, predictVars, loadVars, cacheVars, lightVars>>

\* What the actions of one component leave alone.
notParse == <<resolveVars, storeVars, predictVars, loadVars, cacheVars, lightVars>>

notResolve == <<parseVars, storeVars, predictVars, loadVars, cacheVars, lightVars>>

notPredict == <<parseVars, resolveVars, loadVars, cacheVars, lightVars>>

notLoad == <<parseVars, resolveVars, predictVars, cacheVars, lightVars>>

notCache == <<parseVars, resolveVars, storeVars, predictVars, loadVars, lightVars>>

notLight == <<parseVars, resolveVars, storeVars, predictVars, loadVars, cacheVars>>

(***************************************************************************)
(* Characters and strings                                                  *)
(***************************************************************************)
LowerLetters ==
    <<"a","b","c","d","e","f","g","h","i","j","k","l","m",
      "n","o","p","q","r","s","t","u","v","w","x","y","z">>

UpperLetters ==
    <<"A","B","C","D","E","F","G","H","I","J","K","L","M",
      "N","O","P","Q","R","S","T","U","V","W","X","Y","Z">>

Range(s) == {s[i] : i \in DOMAIN s}

Digit == {"0","1","2","3","4","5","6","7","8","9"}

\* What \s and str.strip() treat as blank, as far as the alphabet here goes.
Whitespace == {" ", "\t"}

\* The character class [-\s] of the patterns.
Separator == {"-"} \cup Whitespace

IsLetter(c) == c \in Range(LowerLetters) \cup Range(UpperLetters)

IndexIn(c, s) == CHOOSE i \in DOMAIN s : s[i] = c

UpperChar(c) == IF c \in Range(LowerLetters) THEN UpperLetters[IndexIn(c, LowerLetters)] ELSE c

LowerChar(c) == IF c \in Range(UpperLetters) THEN LowerLetters[IndexIn(c, UpperLetters)] ELSE c

Upper(s) == [i \in 1..Len(s) |-> UpperChar(s[i])]

Lower(s) == [i \in 1..Len(s) |-> LowerChar(s[i])]

After(s, n) == SubSeq(s, n + 1, Len(s))

RECURSIVE LStrip(_)
LStrip(s) == IF s # <<>> /\ Head(s) \in Whitespace THEN LStrip(Tail(s)) ELSE s

RECURSIVE RStrip(_)
RStrip(s) ==
    IF s # <<>> /\ s[Len(s)] \in Whitespace THEN RStrip(SubSeq(s, 1, Len(s) - 1)) ELSE s

Strip(s) == RStrip(LStrip(s))

IsSubstringAt(sub, s, i) ==
    /\ i >= 1
    /\ i + Len(sub) - 1 <= Len(s)
    /\ SubSeq(s, i, i + Len(sub) - 1) = sub

(***************************************************************************)
(* The regular expressions of detect_mission_and_id                        *)
(***************************************************************************)
\* \d+
IsDigits(s) == Len(s) > 0 /\ \A i \in 1..Len(s) : s[i] \in Digit

\* \d+(?:\.\d+)?
IsNumber(s) ==
    \E k \in 1..Len(s) :
        /\ IsDigits(SubSeq(s, 1, k))
        /\ \/ k = Len(s)
           \/ /\ k < Len(s)
              /\ s[k + 1] = "."
              /\ IsDigits(After(s, k + 1))

NoMatch == [matched |-> FALSE, group |-> <<>>]

Match(g) == [matched |-> TRUE, group |-> g]

\* re.IGNORECASE on a literal prefix, p given in upper case
StartsWithCS(s, p) == Len(s) >= Len(p) /\ SubSeq(s, 1, Len(p)) = p

StartsWithCI(s, p) == Len(s) >= Len(p) /\ Upper(SubSeq(s, 1, Len(p))) = p

\* What is left for the capture group after the literal prefix and [-\s]?
AfterPrefix(s, p) ==
    LET rest == After(s, Len(p))
    IN  IF rest # <<>> /\ Head(rest) \in Separator THEN Tail(rest) ELSE rest

\* ^<p>[-\s]?(\d+(?:\.\d+)?)$
PrefixedNumber(s, p) ==
    IF StartsWithCI(s, p) /\ IsNumber(AfterPrefix(s, p))
    THEN Match(AfterPrefix(s, p)) ELSE NoMatch

\* ^<p>[-\s]?(\d+)$
PrefixedDigits(s, p) ==
    IF StartsWithCI(s, p) /\ IsDigits(AfterPrefix(s, p))
    THEN Match(AfterPrefix(s, p)) ELSE NoMatch

\* ^(\d+(?:\.\d+)?)$
BareNumber(s) == IF IsNumber(s) THEN Match(s) ELSE NoMatch

\* ^K(\d+(?:\.\d+)?)$  : no separator allowed
KNumber(s) ==
    IF StartsWithCI(s, <<"K">>) /\ IsNumber(After(s, 1)) THEN Match(After(s, 1)) ELSE NoMatch

RECURSIVE LeadingDigits(_)
LeadingDigits(s) ==
    IF s # <<>> /\ Head(s) \in Digit THEN 1 + LeadingDigits(Tail(s)) ELSE 0

\* ^Kepler[-\s]?(\d+)(?:\s*[a-z])?$
KeplerName(s) ==
    LET p      == <<"K","E","P","L","E","R">>
        body   == AfterPrefix(s, p)
        k      == LeadingDigits(body)
        suffix == After(body, k)
    IN  IF /\ StartsWithCI(s, p)
           /\ k > 0
           /\ \/ suffix = <<>>
              \/ /\ IsLetter(suffix[Len(suffix)])
                 /\ \A i \in 1..(Len(suffix) - 1) : suffix[i] \in Whitespace
        THEN Match(SubSeq(body, 1, k)) ELSE NoMatch

toi_patterns(s) == << PrefixedNumber(s, <<"T","O","I">>), BareNumber(s) >>

koi_patterns(s) == << PrefixedNumber(s, <<"K","O","I">>), KNumber(s) >>

k2_patterns(s) == << PrefixedNumber(s, <<"K","2">>), PrefixedDigits(s, <<"E","P","I","C">>) >>

tic_patterns(s) == << PrefixedDigits(s, <<"T","I","C">>), PrefixedDigits(s, <<"T","E","S","S">>) >>

kepler_patterns(s) == << PrefixedDigits(s, <<"K","I","C">>), KeplerName(s) >>

\* for pattern in patterns: match = re.match(...); if match: return ...
FirstMatch(ms) ==
    IF \E i \in DOMAIN ms : ms[i].matched
    THEN ms[CHOOSE i \in DOMAIN ms : ms[i].matched /\ \A j \in 1..(i - 1) : ~ms[j].matched]
    ELSE NoMatch

\* The families in the order the code checks them, each with the mission it returns.
Families(s) ==
    << [mission |-> "TESS",   family |-> "TOI",    m |-> FirstMatch(toi_patterns(s))],
       [mission |-> "Kepler", family |-> "KOI",    m |-> FirstMatch(koi_patterns(s))],
       [mission |-> "K2",     family |-> "K2",     m |-> FirstMatch(k2_patterns(s))],
       [mission |-> "TESS",   family |-> "TIC",    m |-> FirstMatch(tic_patterns(s))],
       [mission |-> "Kepler", family |-> "Kepler", m |-> FirstMatch(kepler_patterns(s))] >>

ParseError == [ok |-> FALSE, mission |-> "", numeric_id |-> <<>>, original_target |-> <<>>]

detect_mission_and_id(t) ==
    LET s   == Strip(t)
        fam == Families(s)
    IN  IF \E i \in DOMAIN fam : fam[i].m.matched
        THEN LET f == fam[CHOOSE i \in DOMAIN fam :
                            fam[i].m.matched /\ \A j \in 1..(i - 1) : ~fam[j].m.matched]
             IN  [ok |-> TRUE, mission |-> f.mission, numeric_id |-> f.m.group,
                  original_target |-> s]
        ELSE ParseError

(***************************************************************************)
(* Inputs of the parser                                                    *)
(***************************************************************************)
MaxBodyLen == 3

DocTargets ==
    << <<"T","O","I","-","1","0","1","9",".","0","1">>,
       <<"1","0","1","9",".","0","1">>,
       <<"K","O","I","-","7","5","2",".","0","1">>,
       <<"K","0","0","7","5","2",".","0","1">>,
       <<"T","I","C"," ","3","0","7","2","1","0","8","3","0">>,
       <<"K","I","C"," ","1","0","6","6","6","5","9","2">> >>

DocParsed ==
    << [mission |-> "TESS",   numeric_id |-> <<"1","0","1","9",".","0","1">>],
       [mission |-> "TESS",   numeric_id |-> <<"1","0","1","9",".","0","1">>],
       [mission |-> "Kepler", numeric_id |-> <<"7","5","2",".","0","1">>],
       [mission |-> "Kepler", numeric_id |-> <<"0","0","7","5","2",".","0","1">>],
       [mission |-> "TESS",   numeric_id |-> <<"3","0","7","2","1","0","8","3","0">>],
       [mission |-> "Kepler", numeric_id |-> <<"1","0","6","6","6","5","9","2">>] >>

\* Every spelling of s that differs from it in letter case only.
RECURSIVE CaseVariants(_)
CaseVariants(s) ==
    IF s = <<>> THEN {<<>>}
    ELSE {<<c>> \o r : c \in {UpperChar(Head(s)), LowerChar(Head(s))},
                       r \in CaseVariants(Tail(s))}

GenPrefixes ==
    { <<>>, <<"T","O","I">>, <<"t","o","i">>, <<"K","O","I">>, <<"k","O","i">>,
      <<"K">>, <<"k">>, <<"K","2">>, <<"k","2">>, <<"E","P","I","C">>,
      <<"T","I","C">>, <<"T","E","S","S">>, <<"K","I","C">>,
      <<"K","e","p","l","e","r">>, <<"X","Y","Z">> }

GenSeparators == { <<>>, <<"-">>, <<" ">>, <<"-","-">> }

GenBodies == UNION { [1..n -> {"0","2","."}] : n \in 0..MaxBodyLen }

GenSuffixes == { <<>>, <<" ","b">>, <<"b">>, <<" ">> }

GenLeads == { <<>>, <<" ">> }

GenTargets ==
    { l \o p \o s \o b \o x : l \in GenLeads, p \in GenPrefixes, s \in GenSeparators,
                              b \in GenBodies, x \in GenSuffixes }

ParseTargets ==
    GenTargets \cup UNION { CaseVariants(DocTargets[i]) : i \in DOMAIN DocTargets }

(***************************************************************************)
(* Specification of the parser: one call on one input                      *)
(***************************************************************************)
NotParsed == [called |-> FALSE, r |-> ParseError]

Parse ==
    /\ ~parsed.called
    /\ parsed' = [called |-> TRUE, r |-> detect_mission_and_id(target)]
    /\ UNCHANGED target
    /\ UNCHANGED notParse


(***************************************************************************)
(* JSON values: what the archive returns in a row and what a caller may    *)
(* put into a feature mapping.  A number n stands for the float n / 10.    *)
(***************************************************************************)
JNull == [t |-> "null", n |-> 0, s |-> <<>>]

JNum(n) == [t |-> "num", n |-> n, s |-> <<>>]

JStr(s) == [t |-> "str", n |-> 0, s |-> s]

JNaN == [t |-> "nan", n |-> 0, s |-> <<>>]

JBool(b) == [t |-> "bool", n |-> IF b THEN 1 ELSE 0, s |-> <<>>]

JList == [t |-> "list", n |-> 0, s |-> <<>>]

\* dict.get(key, default)
Get(d, key, default) == IF key \in DOMAIN d THEN d[key] ELSE default

DigitChars == <<"0","1","2","3","4","5","6","7","8","9">>

RECURSIVE NatToStr(_)
NatToStr(n) ==
    IF n < 10 THEN <<DigitChars[n + 1]>>
    ELSE NatToStr(n \div 10) \o <<DigitChars[(n % 10) + 1]>>

\* str(v) of an identifier column: integers print as their digits, None as "None".
PyStr(v) ==
    CASE v.t = "null" -> <<"N","o","n","e">>
      [] v.t = "str"  -> v.s
      [] v.t = "num"  -> NatToStr(v.n)
      [] OTHER        -> <<"?">>

(***************************************************************************)
(* query_nasa_tap and the archive                                          *)
(***************************************************************************)
TapQuery(table, column, literal, quoted) ==
    [table |-> table, column |-> column, literal |-> literal, quoted |-> quoted]

ToiRowFull ==
    [c \in {"toi", "tid", "tfopwg_disp", "pl_orbper", "ra", "dec"} |->
        CASE c = "toi" -> JNum(10190)
          [] c = "tid" -> JNum(307210830)
          [] c = "tfopwg_disp" -> JStr(<<"P","C">>)
          [] c = "pl_orbper" -> JNull
          [] c = "ra" -> JNum(1234)
          [] c = "dec" -> JNum(56)]

ToiRowNullTid == [ToiRowFull EXCEPT !["tid"] = JNull]

ToiRowNoTid == [c \in {"toi", "pl_orbper"} |-> IF c = "toi" THEN JNum(10190) ELSE JNum(95)]

KoiRowFull ==
    [c \in {"kepoi_name", "kepid", "koi_disposition", "koi_period", "ra", "dec"} |->
        CASE c = "kepoi_name" -> JStr(<<"K","0","0","7","5","2",".","0","1">>)
          [] c = "kepid" -> JNum(10666592)
          [] c = "koi_disposition" -> JStr(<<"C","O","N","F","I","R","M","E","D">>)
          [] c = "koi_period" -> JNum(95)
          [] c = "ra" -> JNull
          [] c = "dec" -> JNum(481)]

KoiRowNullKepid == [KoiRowFull EXCEPT !["kepid"] = JNull]

KoiRowNoKepid == [c \in {"kepoi_name"} |-> JStr(<<"K","0","0","7","5","2",".","0","1">>)]

\* What a query of a table can return when the call succeeds.
TapResults(table) ==
    IF table = "toi"
    THEN { <<>>, <<ToiRowFull>>, <<ToiRowNullTid, ToiRowFull>>, <<ToiRowNoTid>> }
    ELSE { <<>>, <<KoiRowFull>>, <<KoiRowNullKepid, KoiRowFull>>, <<KoiRowNoKepid>> }

\* query_nasa_tap either returns the decoded rows or raises NASAAPIError
\* (httpx.HTTPError and every other exception are both turned into it).
TapOutcomes(table) ==
    { [kind |-> "rows", rows |-> r] : r \in TapResults(table) }
        \cup { [kind |-> "error", rows |-> <<>>] }

Issued(q, out) == [query |-> q, outcome |-> out]

(***************************************************************************)
(* resolve_toi_to_tic, resolve_koi_to_kepid                                *)
(***************************************************************************)
PadWidth == 8

\* format(s, "0>8"): right-aligned in PadWidth columns, filled with "0"
PadLeft(s, width, fill) ==
    IF Len(s) >= width THEN s
    ELSE [i \in 1..(width - Len(s)) |-> fill] \o s

ToiQuery(toi_id) == TapQuery("toi", "toi", toi_id, FALSE)

KoiFirstQueryUnpadded(koi_id) == TapQuery("cumulative", "kepoi_name", <<"K">> \o koi_id, TRUE)

KoiFirstQuery(koi_id) ==
    TapQuery("cumulative", "kepoi_name", <<"K">> \o PadLeft(koi_id, PadWidth, "0"), TRUE)

KoiSecondQuery(koi_id) == TapQuery("cumulative", "kepoi_name", koi_id, TRUE)

NoRow == [c \in {} |-> JNull]

LookupPending == [kind |-> "pending", row |-> NoRow]

LookupNone == [kind |-> "none", row |-> NoRow]

\* return results[0]
LookupReturned(rows) == [kind |-> "returned", row |-> rows[1]]

\* raise NASAAPIError(f"... not found")
LookupNotFound == [kind |-> "not_found", row |-> NoRow]

\* the NASAAPIError of query_nasa_tap, passing through
LookupQueryFailed == [kind |-> "query_failed", row |-> NoRow]

(***************************************************************************)
(* GET /resolve/{target}                                                   *)
(***************************************************************************)
ToiMetadataKeys ==
    {"toi", "tid", "tfopwg_disp", "pl_orbper", "pl_rade", "st_tmag", "st_teff", "st_rad"}

KoiMetadataKeys ==
    {"kepoi_name", "kepid", "koi_disposition", "koi_period", "koi_prad", "koi_kepmag",
     "koi_steff", "koi_srad"}

\* The sub-schema without the filter on None.
CleanMetadataKeepNulls(row, keys) == [k \in keys |-> Get(row, k, JNull)]

\* {k: row.get(k) for k in keys}, then {k: v for k, v in ... if v is not None}
CleanMetadata(row, keys) ==
    LET got  == [k \in keys |-> Get(row, k, JNull)]
        kept == {k \in keys : got[k] # JNull}
    IN  [k \in kept |-> got[k]]

NoResponse ==
    [status |-> 0, mission |-> "", numeric_id |-> <<>>, ra |-> JNull, dec |-> JNull,
     metadata |-> NoRow]

\* ResolveResponse(mission=..., numeric_id=numeric_id), metadata {} and ra, dec None
InitialResponse(p) ==
    [status |-> 200, mission |-> p.mission, numeric_id |-> p.numeric_id,
     ra |-> JNull, dec |-> JNull, metadata |-> NoRow]

\* Every failure answered as a gateway failure.
ErrorResponseAsGateway(code) == [NoResponse EXCEPT !.status = 502]

\* raise HTTPException(status_code=code)
ErrorResponse(code) == [NoResponse EXCEPT !.status = code]

\* The assignments after a successful lookup.
ResolvedResponse(p, row, idColumn, keys) ==
    [status |-> 200, mission |-> p.mission,
     numeric_id |-> PyStr(Get(row, idColumn, JStr(p.numeric_id))),
     ra |-> Get(row, "ra", JNull), dec |-> Get(row, "dec", JNull),
     metadata |-> CleanMetadata(row, keys)]

\* target.upper().startswith(("TOI", "TOI-")): on the path parameter as received
LooksLikeToi(t) == StartsWithCS(Upper(t), <<"T","O","I">>)

\* target.upper().startswith(("KOI", "KOI-", "K"))
LooksLikeKoi(t) ==
    \/ StartsWithCS(Upper(t), <<"K","O","I">>)
    \/ StartsWithCS(Upper(t), <<"K">>)

\* except NASAAPIError around the lookup: warn, "continue with original numeric_id"
AfterLookupErrorGateway(p) == ErrorResponse(502)

AfterLookupError(p) == InitialResponse(p)

ResolveTargets ==
    { <<"T","O","I","-","1","0","1","9",".","0","1">>,
      <<"t","o","i"," ","1","0","1","9">>,
      <<" ","T","O","I","-","1","0","1","9",".","0","1">>,
      <<"1","0","1","9",".","0","1">>,
      <<"K","O","I","-","7","5","2",".","0","1">>,
      <<"K","0","0","7","5","2",".","0","1">>,
      <<"k","1","2","3","4","5","6","7","8","9">>,
      <<"T","I","C"," ","3","0","7","2","1","0","8","3","0">>,
      <<"K","I","C"," ","1","0","6","6","6","5","9","2">>,
      <<"K","e","p","l","e","r","-","2","2","7"," ","b">>,
      <<"K","2","-","1","8">>,
      <<"E","P","I","C"," ","2","0","1">>,
      <<"t","o","i","-","7","0","0">>,
      <<"K","O","I"," ","1","7">>,
      <<"k","i","c","-","8">>,
      <<"X","Y","Z","-","9","9","9">>,
      <<"T","O","I">> }

\* The handler up to its first await, or to its end when no lookup is made.
ResolveStart ==
    /\ rPc = "idle"
    /\ \E t \in ResolveTargets :
          LET p == detect_mission_and_id(t)
          IN  /\ rTarget' = t
              /\ rQueries' = <<>>
              /\ IF ~p.ok
                 THEN /\ rPc' = "done"
                      /\ rLookup' = LookupNone
                      /\ rResp' = ErrorResponse(400)
                 ELSE IF p.mission = "TESS" /\ LooksLikeToi(t)
                 THEN /\ rPc' = "toi_query"
                      /\ rLookup' = LookupPending
                      /\ rResp' = NoResponse
                 ELSE IF p.mission = "Kepler" /\ LooksLikeKoi(t)
                 THEN /\ rPc' = "koi_query1"
                      /\ rLookup' = LookupPending
                      /\ rResp' = NoResponse
                 ELSE /\ rPc' = "done"
                      /\ rLookup' = LookupNone
                      /\ rResp' = InitialResponse(p)
    /\ UNCHANGED notResolve

\* resolve_toi_to_tic resumes with the outcome of its query; the handler ends.
ToiQueryDone ==
    /\ rPc = "toi_query"
    /\ \E out \in TapOutcomes("toi") :
          LET p == detect_mission_and_id(rTarget)
          IN  /\ rQueries' = Append(rQueries, Issued(ToiQuery(p.numeric_id), out))
              /\ rPc' = "done"
              /\ IF out.kind = "error"
                 THEN /\ rLookup' = LookupQueryFailed
                      /\ rResp' = AfterLookupError(p)
                 ELSE IF out.rows = <<>>
                 THEN /\ rLookup' = LookupNotFound
                      /\ rResp' = AfterLookupError(p)
                 ELSE /\ rLookup' = LookupReturned(out.rows)
                      /\ rResp' = ResolvedResponse(p, out.rows[1], "tid", ToiMetadataKeys)
    /\ UNCHANGED rTarget
    /\ UNCHANGED notResolve

\* resolve_koi_to_kepid resumes with the outcome of its first query.
KoiQuery1Done ==
    /\ rPc = "koi_query1"
    /\ \E out \in TapOutcomes("cumulative") :
          LET p == detect_mission_and_id(rTarget)
          IN  /\ rQueries' = Append(rQueries, Issued(KoiFirstQuery(p.numeric_id), out))
              /\ IF out.kind = "error"
                 THEN /\ rPc' = "done"
                      /\ rLookup' = LookupQueryFailed
                      /\ rResp' = AfterLookupError(p)
                 ELSE IF out.rows = <<>>
                 THEN /\ rPc' = "koi_query2"
                      /\ UNCHANGED <<rLookup, rResp>>
                 ELSE /\ rPc' = "done"
                      /\ rLookup' = LookupReturned(out.rows)
                      /\ rResp' = ResolvedResponse(p, out.rows[1], "kepid", KoiMetadataKeys)
    /\ UNCHANGED rTarget
    /\ UNCHANGED notResolve

\* resolve_koi_to_kepid resumes with the outcome of its second query; the handler ends.
KoiQuery2Done ==
    /\ rPc = "koi_query2"
    /\ \E out \in TapOutcomes("cumulative") :
          LET p == detect_mission_and_id(rTarget)
          IN  /\ rQueries' = Append(rQueries, Issued(KoiSecondQuery(p.numeric_id), out))
              /\ rPc' = "done"
              /\ IF out.kind = "error"
                 THEN /\ rLookup' = LookupQueryFailed
                      /\ rResp' = AfterLookupError(p)
                 ELSE IF out.rows = <<>>
                 THEN /\ rLookup' = LookupNotFound
                      /\ rResp' = AfterLookupError(p)
                 ELSE /\ rLookup' = LookupReturned(out.rows)
                      /\ rResp' = ResolvedResponse(p, out.rows[1], "kepid", KoiMetadataKeys)
    /\ UNCHANGED rTarget
    /\ UNCHANGED notResolve

\* The next request arrives.
ResolveAgain ==
    /\ rPc = "done"
    /\ rPc' = "idle"
    /\ rTarget' = <<>>
    /\ rQueries' = <<>>
    /\ rLookup' = LookupNone
    /\ rResp' = NoResponse
    /\ UNCHANGED notResolve

ResolveNext ==
    \/ ResolveStart
    \/ ToiQueryDone
    \/ KoiQuery1Done
    \/ KoiQuery2Done
    \/ ResolveAgain

(***************************************************************************)
(* The model directory and get_model_info                                  *)
(***************************************************************************)
TESS == <<"T","E","S","S">>

KEPLER == <<"K","E","P","L","E","R">>

K2 == <<"K","2">>

\* MODELS.keys(), in the order of the dict
Missions == <<TESS, K2, KEPLER>>

\* MODELS[mission]: the three paths
ModelPaths(mission) ==
    CASE mission = TESS ->
            [model |-> "toi_model.calibrated.pkl", features |-> "feature_order.pkl",
             threshold |-> "decision_threshold.pkl"]
      [] mission = K2 ->
            [model |-> "k2_model.calibrated.pkl", features |-> "k2_feature_order.pkl",
             threshold |-> "k2_threshold.pkl"]
      [] mission = KEPLER ->
            [model |-> "koi_model.calibrated.pkl", features |-> "koi_feature_order.pkl",
             threshold |-> "koi_threshold.pkl"]

\* ExoplanetClassifier._get_model_files
ClassifierPaths(mission) ==
    CASE mission = TESS ->
            [model |-> "toi_model.calibrated.pkl", features |-> "toi_feature_order.pkl",
             threshold |-> "toi_threshold.pkl"]
      [] mission = K2 ->
            [model |-> "k2_model.calibrated.pkl", features |-> "k2_feature_order.pkl",
             threshold |-> "k2_threshold.pkl"]
      [] mission = KEPLER ->
            [model |-> "koi_model.calibrated.pkl", features |-> "koi_feature_order.pkl",
             threshold |-> "koi_threshold.pkl"]

FileNames ==
    { "toi_model.calibrated.pkl", "feature_order.pkl", "decision_threshold.pkl",
      "toi_feature_order.pkl", "toi_threshold.pkl",
      "k2_model.calibrated.pkl", "k2_feature_order.pkl", "k2_threshold.pkl",
      "koi_model.calibrated.pkl", "koi_feature_order.pkl", "koi_threshold.pkl" }

ToiFeatureOrder ==
    <<"pl_orbper", "pl_trandurh", "pl_trandep", "pl_rade", "pl_insol", "pl_eqt",
      "st_teff", "st_logg", "st_rad", "st_tmag">>

KoiFeatureOrder ==
    <<"koi_period", "koi_duration", "koi_depth", "koi_model_snr", "koi_impact",
      "koi_prad", "koi_teq", "koi_insol", "koi_steff", "koi_slogg", "koi_srad">>

K2FeatureOrder ==
    <<"pl_orbper", "pl_orbsmax", "pl_rade", "pl_bmasse", "pl_insol", "pl_eqt",
      "pl_orbeccen", "st_teff", "st_rad", "st_mass", "st_logg", "st_met">>

\* Probabilities and thresholds are integers in units of 1/100000.
Half == 50000

\* File contents.  A threshold file holds a bare float or a dict.
FileOf(kind, names, bare, keys, tau, threshold) ==
    [kind |-> kind, names |-> names, bare |-> bare, keys |-> keys, tau |-> tau,
     threshold |-> threshold]

Absent == FileOf("absent", <<>>, 0, {}, 0, 0)

Corrupt == FileOf("corrupt", <<>>, 0, {}, 0, 0)

ScorerFile == FileOf("scorer", <<>>, 0, {}, 0, 0)

OrderFile(names) == FileOf("order", names, 0, {}, 0, 0)

BareThreshold(v) == FileOf("float", <<>>, v, {}, 0, 0)

TauDict(v) == FileOf("dict", <<>>, 0, {"tau"}, v, 0)

ThresholdDict(v) == FileOf("dict", <<>>, 0, {"threshold"}, 0, v)

BothDict(t, v) == FileOf("dict", <<>>, 0, {"tau", "threshold"}, t, v)

EmptyDict == FileOf("dict", <<>>, 0, {}, 0, 0)

\* A threshold as the program holds it: a number, or (in ExoplanetClassifier,
\* which keeps the unpickled object) possibly a dict.
NumThreshold(v) == [isnum |-> TRUE, v |-> v]

DictThreshold == [isnum |-> FALSE, v |-> 0]

NoInfo == [model |-> "", features |-> <<>>, threshold |-> NumThreshold(0)]

Loaded(kind, info, reads) == [kind |-> kind, info |-> info, reads |-> reads]

Exists(st, name) == st[name].kind # "absent"

\* A reading that prefers the key "threshold" over "tau".
ThresholdOfPreferThreshold(f) ==
    IF f.kind = "dict"
    THEN IF "threshold" \in f.keys THEN f.threshold
         ELSE IF "tau" \in f.keys THEN f.tau ELSE Half
    ELSE f.bare

\* threshold_data.get("tau", threshold_data.get("threshold", 0.5)) / float(threshold_data)
ThresholdOf(f) ==
    IF f.kind = "dict"
    THEN IF "tau" \in f.keys THEN f.tau
         ELSE IF "threshold" \in f.keys THEN f.threshold ELSE Half
    ELSE f.bare

\* A loader that does without the threshold file and falls back to 0.5.
LoadModelInfoLenient(st, arg) ==
    LET mission == Upper(arg)
    IN  IF mission \notin Range(Missions)
        THEN Loaded("ValueError", NoInfo, 0)
        ELSE LET paths == ModelPaths(mission)
                 ok(f) == st[f].kind \notin {"absent", "corrupt"}
             IN  IF ok(paths.model) /\ ok(paths.features)
                 THEN Loaded("ok",
                             [model |-> paths.model, features |-> st[paths.features].names,
                              threshold |-> NumThreshold(IF ok(paths.threshold)
                                                         THEN ThresholdOf(st[paths.threshold])
                                                         ELSE Half)], 3)
                 ELSE Loaded("ModelError", NoInfo, 1)

\* The body of get_model_info (what lru_cache wraps), on the directory st.
\* reads counts the files joblib.load was called on.
LoadModelInfo(st, arg) ==
    LET mission == Upper(arg)
    IN  IF mission \notin Range(Missions)
        THEN Loaded("ValueError", NoInfo, 0)
        ELSE LET paths == ModelPaths(mission)
                 mf == st[paths.model]
                 ff == st[paths.features]
                 tf == st[paths.threshold]
             IN  IF ~Exists(st, paths.model) THEN Loaded("ModelError", NoInfo, 0)
                 ELSE IF mf.kind = "corrupt" THEN Loaded("ModelError", NoInfo, 1)
                 ELSE IF ~Exists(st, paths.features) THEN Loaded("ModelError", NoInfo, 1)
                 ELSE IF ff.kind # "order" THEN Loaded("ModelError", NoInfo, 2)
                 ELSE IF ~Exists(st, paths.threshold) THEN Loaded("ModelError", NoInfo, 2)
                 ELSE IF tf.kind \notin {"float", "dict"} THEN Loaded("ModelError", NoInfo, 3)
                 ELSE Loaded("ok",
                             [model |-> paths.model, features |-> ff.names,
                              threshold |-> NumThreshold(ThresholdOf(tf))], 3)

\* ExoplanetClassifier.__init__ / _load_model: the unpickled threshold is kept as is.
LoadClassifier(st, arg) ==
    LET mission == Upper(arg)
    IN  IF mission \notin {TESS, KEPLER, K2}
        THEN Loaded("ModelError", NoInfo, 0)
        ELSE LET paths == ClassifierPaths(mission)
                 mf == st[paths.model]
                 ff == st[paths.features]
                 tf == st[paths.threshold]
             IN  IF ~Exists(st, paths.model) THEN Loaded("ModelError", NoInfo, 0)
                 ELSE IF mf.kind = "corrupt" THEN Loaded("ModelError", NoInfo, 1)
                 ELSE IF ~Exists(st, paths.features) THEN Loaded("ModelError", NoInfo, 1)
                 ELSE IF ff.kind # "order" THEN Loaded("ModelError", NoInfo, 2)
                 ELSE IF ~Exists(st, paths.threshold) THEN Loaded("ModelError", NoInfo, 2)
                 ELSE IF tf.kind = "corrupt" THEN Loaded("ModelError", NoInfo, 3)
                 ELSE Loaded("ok",
                             [model |-> paths.model, features |-> ff.names,
                              threshold |-> IF tf.kind = "float" THEN NumThreshold(tf.bare)
                                            ELSE DictThreshold], 3)

LruMaxSize == 3

LruKeys(cache) == {cache[i].key : i \in DOMAIN cache}

LruIndex(cache, key) == CHOOSE i \in DOMAIN cache : cache[i].key = key

RemoveAt(q, i) == SubSeq(q, 1, i - 1) \o SubSeq(q, i + 1, Len(q))

\* A hit moves the entry to the most recently used end.
LruTouch(cache, key) ==
    LET i == LruIndex(cache, key) IN Append(RemoveAt(cache, i), cache[i])

\* A cache that keeps nothing.
LruStoreNothing(cache, key, value) == cache

\* A new entry; when the cache is full the least recently used one is dropped.
\* If the key is there already (another caller stored it meanwhile) nothing changes.
LruStore(cache, key, value) ==
    IF key \in LruKeys(cache) THEN cache
    ELSE LET kept == IF Len(cache) >= LruMaxSize THEN Tail(cache) ELSE cache
         IN  Append(kept, [key |-> key, value |-> value])

\* The files of a mission in the order get_model_info reads them.
PathSeq(paths) == <<paths.model, paths.features, paths.threshold>>

\* reads after joblib.load ran on the first n files of paths
CountReads(rd, paths, n) ==
    [f \in FileNames |-> rd[f] + (IF \E i \in 1..n : PathSeq(paths)[i] = f THEN 1 ELSE 0)]

NoReads == [f \in FileNames |-> 0]

\* The dict get_model_info returns: a new object each time the body runs.
Artifact(obj, info) == [obj |-> obj, info |-> info]

\* A directory as the training scripts leave it (thresholds {"tau": ...}), with
\* a bare float for one mission, and files for ExoplanetClassifier's TESS names.
StoreTrained ==
    [n \in FileNames |->
        CASE n \in {"toi_model.calibrated.pkl", "k2_model.calibrated.pkl",
                    "koi_model.calibrated.pkl"} -> ScorerFile
          [] n \in {"feature_order.pkl", "toi_feature_order.pkl"} -> OrderFile(ToiFeatureOrder)
          [] n = "k2_feature_order.pkl" -> OrderFile(K2FeatureOrder)
          [] n = "koi_feature_order.pkl" -> OrderFile(KoiFeatureOrder)
          [] n = "decision_threshold.pkl" -> TauDict(Half)
          [] n = "toi_threshold.pkl" -> BareThreshold(Half)
          [] n = "k2_threshold.pkl" -> TauDict(30000)
          [] n = "koi_threshold.pkl" -> BareThreshold(Half)]

StoreK2Missing ==
    [StoreTrained EXCEPT !["k2_threshold.pkl"] = Absent,
                         !["koi_threshold.pkl"] = BothDict(80000, 30000),
                         !["toi_threshold.pkl"] = Absent]

\* Thresholds written by another tool: a dict with the key "threshold" only,
\* and a bare float.
StoreThresholdKey ==
    [StoreTrained EXCEPT !["decision_threshold.pkl"] = ThresholdDict(30000),
                         !["k2_threshold.pkl"] = BareThreshold(82000)]

PredictStores == {StoreTrained, StoreK2Missing, StoreThresholdKey}

(***************************************************************************)
(* float(), int() and ExoplanetClassifier.prepare_features                 *)
(***************************************************************************)
RECURSIVE DigitsToNat(_)
DigitsToNat(s) ==
    IF s = <<>> THEN 0
    ELSE DigitsToNat(SubSeq(s, 1, Len(s) - 1)) * 10 + (IndexIn(s[Len(s)], DigitChars) - 1)

Conv(ok, v) == [ok |-> ok, v |-> v]

\* int(s) of a str: blanks stripped, an optional sign, then digits;
\* ok = FALSE stands for ValueError.
PyInt(s) ==
    LET t    == Strip(s)
        neg  == t # <<>> /\ Head(t) = "-"
        body == IF t # <<>> /\ Head(t) \in {"+", "-"} THEN Tail(t) ELSE t
    IN  IF IsDigits(body)
        THEN Conv(TRUE, IF neg THEN 0 - DigitsToNat(body) ELSE DigitsToNat(body))
        ELSE Conv(FALSE, 0)

\* str(n) of an int, as an f-string prints it
IntToStr(n) == IF n < 0 THEN <<"-">> \o NatToStr(0 - n) ELSE NatToStr(n)

\* The unsigned decimals float() accepts: 12, 12., 12.5, .5 ; the value in
\* tenths (digits after the first decimal place are dropped by this unit).
DecimalTenths(s) ==
    IF IsDigits(s) THEN Conv(TRUE, JNum(DigitsToNat(s) * 10))
    ELSE IF \E k \in 1..Len(s) :
               /\ s[k] = "."
               /\ (k > 1 => IsDigits(SubSeq(s, 1, k - 1)))
               /\ (k < Len(s) => IsDigits(After(s, k)))
               /\ Len(s) > 1
    THEN LET k == CHOOSE k \in 1..Len(s) : s[k] = "."
         IN  Conv(TRUE, JNum(DigitsToNat(SubSeq(s, 1, k - 1)) * 10
                             + (IF k < Len(s) THEN DigitsToNat(<<s[k + 1]>>) ELSE 0)))
    ELSE Conv(FALSE, JNull)

Negated(c) == IF c.ok /\ c.v.t = "num" THEN Conv(TRUE, JNum(0 - c.v.n)) ELSE c

\* float(s) of a str: blanks stripped, optional sign, a decimal or nan / inf in
\* any letter case; anything else raises ValueError.
FloatOfStr(s) ==
    LET t    == Strip(s)
        neg  == t # <<>> /\ Head(t) = "-"
        body == IF t # <<>> /\ Head(t) \in {"+", "-"} THEN Tail(t) ELSE t
        word == Lower(body)
    IN  IF word = <<"n","a","n">> THEN Conv(TRUE, JNaN)
        ELSE IF word \in {<<"i","n","f">>, <<"i","n","f","i","n","i","t","y">>}
        THEN Conv(TRUE, [t |-> "inf", n |-> IF neg THEN 0 - 1 ELSE 1, s |-> <<>>])
        ELSE IF neg THEN Negated(DecimalTenths(body)) ELSE DecimalTenths(body)

\* float(value): ok = FALSE stands for ValueError or TypeError
PyFloat(v) ==
    CASE v.t = "num"  -> Conv(TRUE, v)
      [] v.t = "nan"  -> Conv(TRUE, v)
      [] v.t = "inf"  -> Conv(TRUE, v)
      [] v.t = "bool" -> Conv(TRUE, JNum(v.n * 10))
      [] v.t = "str"  -> FloatOfStr(v.s)
      [] OTHER        -> Conv(FALSE, JNull)

Sentinel == JNum(0)

\* value is None or value == "" or (isinstance(value, str) and value.lower() in ['nan', 'null'])
IsNullLikeCaseSensitive(v) ==
    \/ v.t = "null"
    \/ v.t = "str" /\ v.s = <<>>
    \/ v.t = "str" /\ v.s \in {<<"n","a","n">>, <<"n","u","l","l">>}

IsNullLike(v) ==
    \/ v.t = "null"
    \/ v.t = "str" /\ v.s = <<>>
    \/ v.t = "str" /\ Lower(v.s) \in {<<"n","a","n">>, <<"n","u","l","l">>}

\* One turn of the loop of prepare_features, for a name that is in the mapping.
PreparedValue(v) ==
    LET w == IF IsNullLike(v) THEN Sentinel ELSE v
        f == PyFloat(w)
    IN  IF f.ok THEN f.v ELSE Sentinel

\* A loop over the mapping instead of over feature_order.
PrepareFeaturesOverMapping(order, features) ==
    LET present == SelectSeq(order, LAMBDA name : name \in DOMAIN features)
    IN  [raised |-> FALSE,
         vector |-> [i \in 1..Len(present) |-> PreparedValue(features[present[i]])]]

\* ExoplanetClassifier.prepare_features: raised stands for ModelError
PrepareFeatures(order, features) ==
    [raised |-> FALSE,
     vector |-> [i \in 1..Len(order) |->
                    IF order[i] \in DOMAIN features
                    THEN PreparedValue(features[order[i]])
                    ELSE Sentinel]]

\* A row that leaves out the features the data lacks.
DataFrameRowSkippingMissing(order, data) ==
    LET present == SelectSeq(order, LAMBDA name : name \in DOMAIN data)
    IN  [i \in 1..Len(present) |-> data[present[i]]]

\* [feature_data.get(f, np.nan) for f in features]
DataFrameRow(order, data) == [i \in 1..Len(order) |-> Get(data, order[i], JNaN)]

\* {f: feature_data.get(f, None) for f in features}
UsedFeatures(order, data) == [name \in Range(order) |-> Get(data, name, JNull)]

ClassifyStrict(probability, threshold) ==
    IF probability > threshold THEN "CONFIRMED" ELSE "FALSE_POSITIVE"

\* "CONFIRMED" if proba >= tau else "FALSE_POSITIVE"
Classify(probability, threshold) ==
    IF probability >= threshold THEN "CONFIRMED" ELSE "FALSE_POSITIVE"

\* round(float(proba), 4), in units of 1/100000: to the nearest multiple of
\* 10, a tie going to the even fourth decimal.
Round4(p) ==
    LET q == p \div 10
        r == p % 10
    IN  IF r < 5 THEN q * 10
        ELSE IF r > 5 THEN (q + 1) * 10
        ELSE IF q % 2 = 0 THEN q * 10 ELSE (q + 1) * 10

\* clean_features_for_mission
CleanFeatures(row) ==
    LET kept == {k \in DOMAIN row : ~(row[k].t = "null" \/ (row[k].t = "str" /\ row[k].s = <<>>))}
    IN  [k \in kept |->
            IF row[k].t = "str" /\ FloatOfStr(row[k].s).ok THEN FloatOfStr(row[k].s).v
            ELSE row[k]]

(***************************************************************************)
(* Requests to the predict and features routers, and the inputs tried      *)
(***************************************************************************)
RawMissions ==
    { TESS, <<"t","e","s","s">>, KEPLER, <<"K","e","p","l","e","r">>, K2, <<"X","Y","Z">> }

TargetIds ==
    { <<"3","0","7","2","1","0","8","3","0">>, <<"0","0","7">>,
      <<"1","0","1","9",".","0","1">> }

OrderOf(mission) ==
    CASE mission = TESS -> ToiFeatureOrder
      [] mission = KEPLER -> KoiFeatureOrder
      [] mission = K2 -> K2FeatureOrder
      [] OTHER -> <<>>

\* get_tess_features / get_kepler_features / get_k2_features: the query text
FeatureQuery(mission, literal) ==
    CASE mission = TESS -> TapQuery("toi", "tid", literal, FALSE)
      [] mission = KEPLER -> TapQuery("cumulative", "kepid", literal, FALSE)
      [] mission = K2 -> TapQuery("k2targets", "epic_number", literal, FALSE)

\* Rows of the feature tables: every feature, or two of them (one null), or none.
FullRow(order) == [c \in Range(order) \cup {"rowid"} |-> JNum(95)]

SparseRow(order) ==
    [c \in {order[1], order[2], "rowid"} |-> IF c = order[2] THEN JNull ELSE JNum(20)]

TextRow(order) ==
    [c \in {order[1], order[2]} |->
        IF c = order[1] THEN JStr(<<"1",".","5">>) ELSE JStr(<<>>)]

FeatureResults(mission) ==
    LET order == OrderOf(mission)
    IN  { <<>>, <<NoRow>>, <<SparseRow(order), FullRow(order)>>, <<FullRow(order)>>,
          <<TextRow(order)>> }

FeatureOutcomes(mission) ==
    { [kind |-> "rows", rows |-> r] : r \in FeatureResults(mission) }
        \cup { [kind |-> "error", rows |-> <<>>] }

\* Bodies of the custom-feature endpoints.
CustomBodies(mission) ==
    LET order == OrderOf(mission)
    IN  IF order = <<>> THEN {NoRow}
        ELSE { NoRow, FullRow(order), [c \in {order[1], "extra"} |-> JNum(15)] }

\* Values a caller may put into the mapping given to ExoplanetClassifier.predict.
RawValues ==
    { JNull, JStr(<<>>), JStr(<<"n","a","n">>), JStr(<<"N","a","N">>),
      JStr(<<"N","U","L","L">>), JStr(<<"n","u","l","l">>), JStr(<<"a","b","c">>),
      JStr(<<"1",".","5">>), JStr(<<" ","-","2"," ">>), JStr(<<"n","a","n"," ">>),
      JNum(0), JNum(37), JNum(42), JNaN, JBool(TRUE), JList }

\* Mappings over the first two feature names and one name the model does not
\* know; each key may be missing.
RawMappings(order) ==
    LET keys == {order[1], order[2], "extra"}
        vals(k) == IF k = order[1] THEN RawValues \ {JNum(42)}
                   ELSE IF k = order[2] THEN {JNum(42), JNull}
                   ELSE {JStr(<<"a","b","c">>)}
    IN  UNION { { f \in [ks -> RawValues] : \A k \in ks : f[k] \in vals(k) } : ks \in SUBSET keys }

Probabilities == {0, 29999, 30000, 49994, 49996, 50000, 50004, 82000, 100000}

\* predict_proba returns a probability or raises (ValueError, or anything else).
ScorerOutcomes ==
    { [kind |-> "proba", p |-> p] : p \in Probabilities }
        \cup { [kind |-> "ValueError", p |-> 0], [kind |-> "Error", p |-> 0] }

NoScore == [kind |-> "none", p |-> 0]

NoRequest ==
    [endpoint |-> "", mission |-> <<>>, target_id |-> <<>>, hasBody |-> FALSE, body |-> NoRow]

Request(endpoint, mission, target_id, hasBody, body) ==
    [endpoint |-> endpoint, mission |-> mission, target_id |-> target_id,
     hasBody |-> hasBody, body |-> body]

NoResult ==
    [kind |-> "none", status |-> 0, mission |-> <<>>, probability |-> 0, threshold |-> 0,
     classification |-> "", features |-> NoRow, count |-> 0, available |-> 0]

\* raise HTTPException(status_code=code)
HttpError(code) == [NoResult EXCEPT !.kind = "http_error", !.status = code]

\* raise ModelError
RaisedModelError == [NoResult EXCEPT !.kind = "ModelError"]

\* The result dict of the prediction endpoints.
PredictionResult(mission, proba, tau, order, data) ==
    [kind |-> "prediction", status |-> 200, mission |-> Upper(mission),
     probability |-> Round4(proba), threshold |-> tau,
     classification |-> Classify(proba, tau),
     features |-> UsedFeatures(order, data), count |-> Len(order),
     available |-> Cardinality({n \in Range(order) : Get(data, n, JNull) # JNull})]

\* The dict returned by GET /predict/{mission}/{target_id}/features
FeaturesResult(mission, order, data) ==
    [kind |-> "features", status |-> 200, mission |-> Upper(mission), probability |-> 0,
     threshold |-> 0, classification |-> "", features |-> UsedFeatures(order, data),
     count |-> Len(order),
     available |-> Cardinality({n \in Range(order) : Get(data, n, JNull) # JNull})]

\* FeaturesResponse of GET /features/{mission}/{target_id}
CleanedResult(mission, row) ==
    [kind |-> "cleaned", status |-> 200, mission |-> mission, probability |-> 0,
     threshold |-> 0, classification |-> "", features |-> CleanFeatures(row),
     count |-> Cardinality(DOMAIN CleanFeatures(row)), available |-> 0]

\* The dict returned by ExoplanetClassifier.predict
ClassifierResult(mission, proba, tau, order, raw) ==
    [kind |-> "classifier", status |-> 0, mission |-> mission, probability |-> proba,
     threshold |-> tau, classification |-> Classify(proba, tau), features |-> NoRow,
     count |-> Len(order),
     available |-> Cardinality({i \in 1..Len(order) : order[i] \in DOMAIN raw})]

\* get_feature_data up to its await: int(target_id), then the choice of table.
FeatureDataEntry(mission, target_id) ==
    LET m == Upper(mission)
        n == PyInt(target_id)
    IN  IF ~n.ok THEN [kind |-> "http", status |-> 400, query |-> TapQuery("", "", <<>>, FALSE)]
        ELSE IF m \in {TESS, KEPLER, K2}
        THEN [kind |-> "await", status |-> 0, query |-> FeatureQuery(m, IntToStr(n.v))]
        ELSE [kind |-> "http", status |-> 400, query |-> TapQuery("", "", <<>>, FALSE)]

\* What becomes of an HTTPException raised by get_feature_data: the prediction
\* endpoint re-raises it, the other two catch it as Exception and answer 500.
Reraised(endpoint, code) == IF endpoint = "predict" THEN HttpError(code) ELSE HttpError(500)

\* get_tess_features / get_kepler_features / get_k2_features: the exception
\* that leaves them.  query_nasa_tap raises NASAAPIError for a failed call,
\* and "if not results" raises the same class for an empty answer.
LookupRaises(out) ==
    IF out.kind = "error" \/ out.rows = <<>> THEN "NASAAPIError" ELSE "none"

\* features router: except NASAAPIError -> 404, except Exception -> 500
FeaturesRouterOnError(exc) ==
    IF exc = "NASAAPIError" THEN HttpError(404) ELSE HttpError(500)

\* get_feature_data: except ValueError -> 400, except HTTPException: raise,
\* except Exception -> 500
FeatureDataOnError(exc) ==
    IF exc = "ValueError" THEN HttpError(400) ELSE HttpError(500)

\* The response of a request whose feature lookup ended with outcome out,
\* when that outcome is a failure.
LookupFailureResponse(endpoint, out) ==
    IF endpoint = "features" THEN FeaturesRouterOnError(LookupRaises(out))
    ELSE Reraised(endpoint, FeatureDataOnError(LookupRaises(out)).status)

(***************************************************************************)
(* The handlers of the predict router and of GET /features, one request    *)
(***************************************************************************)
Endpoints == {"predict", "pfeatures", "custom_get", "custom_post", "features"}

NoBody == [has |-> FALSE, body |-> NoRow]

BodiesFor(endpoint, mission) ==
    LET given == { [has |-> TRUE, body |-> b] : b \in CustomBodies(Upper(mission)) }
    IN  CASE endpoint = "custom_post" -> given
          [] endpoint = "custom_get" -> given \cup {NoBody}
          [] OTHER -> {NoBody}

NoVector == [state |-> "none", v |-> <<>>]

Assembled(v) == [state |-> "ok", v |-> v]

\* The handler up to its first await.
PredictStart ==
    /\ pPc = "idle"
    /\ \E endpoint \in Endpoints, mission \in RawMissions, target_id \in TargetIds :
         \E b \in BodiesFor(endpoint, mission) :
            /\ pReq' = Request(endpoint, mission, target_id, b.has, b.body)
            /\ IF endpoint = "features"
               THEN IF Upper(mission) \notin {TESS, KEPLER, K2}
                    THEN pPc' = "done" /\ pResp' = HttpError(400)
                    ELSE pPc' = "fetch" /\ pResp' = NoResult
               ELSE IF endpoint = "pfeatures" /\ Upper(mission) \notin Range(Missions)
                    THEN pPc' = "done" /\ pResp' = HttpError(400)
                    ELSE pPc' = "load" /\ pResp' = NoResult
    /\ pTrace' = <<>>
    /\ UNCHANGED <<pInfo, pData, pVector, pScore, pQueries, storeVars>>
    /\ UNCHANGED notPredict

\* await run_in_threadpool(get_model_info, ...) returns or raises, and the
\* handler runs on to its next await.
LoadDone ==
    /\ pPc = "load"
    /\ LET endpoint == pReq.endpoint
           key  == IF endpoint = "pfeatures" THEN pReq.mission ELSE Upper(pReq.mission)
           hit  == key \in LruKeys(lru)
           res  == LoadModelInfo(store, key)
           art  == IF hit THEN lru[LruIndex(lru, key)].value
                   ELSE Artifact(heap + 1, res.info)
           kind == IF hit THEN "ok" ELSE res.kind
           entry == FeatureDataEntry(pReq.mission, pReq.target_id)
       IN  /\ lru' = IF hit THEN LruTouch(lru, key)
                     ELSE IF res.kind = "ok" THEN LruStore(lru, key, art) ELSE lru
           /\ heap' = IF ~hit /\ res.kind = "ok" THEN heap + 1 ELSE heap
           /\ fileReads' = IF hit \/ res.kind = "ValueError" THEN fileReads
                           ELSE CountReads(fileReads, ModelPaths(Upper(key)), res.reads)
           /\ IF kind = "ValueError"
              THEN /\ pPc' = "done" /\ pResp' = HttpError(400)
                   /\ pTrace' = Append(pTrace, "load")
                   /\ UNCHANGED <<pInfo, pData, pVector>>
              ELSE IF kind = "ModelError"
              THEN /\ pPc' = "done" /\ pResp' = HttpError(500)
                   /\ pTrace' = Append(pTrace, "load")
                   /\ UNCHANGED <<pInfo, pData, pVector>>
              ELSE IF pReq.hasBody
              THEN /\ pInfo' = art.info
                   /\ pData' = pReq.body
                   /\ pVector' = Assembled(DataFrameRow(art.info.features, pReq.body))
                   /\ pTrace' = pTrace \o <<"load", "assemble">>
                   /\ pPc' = "score" /\ pResp' = NoResult
              ELSE /\ pInfo' = art.info
                   /\ pTrace' = Append(pTrace, "load")
                   /\ UNCHANGED <<pData, pVector>>
                   /\ IF entry.kind = "http"
                      THEN pPc' = "done" /\ pResp' = Reraised(endpoint, entry.status)
                      ELSE pPc' = "fetch" /\ pResp' = NoResult
    /\ UNCHANGED <<pReq, pScore, pQueries, store>>
    /\ UNCHANGED notPredict

\* The archive query returns or raises, and the handler runs on to its next
\* await or to its end.
FetchDone ==
    /\ pPc = "fetch"
    /\ LET endpoint == pReq.endpoint
           m == Upper(pReq.mission)
           q == IF endpoint = "features" THEN FeatureQuery(m, pReq.target_id)
                ELSE FeatureDataEntry(pReq.mission, pReq.target_id).query
       IN  \E out \in FeatureOutcomes(m) :
             LET failed == LookupRaises(out) # "none"
                 row == IF failed THEN NoRow ELSE out.rows[1]
                 scored == /\ ~failed
                           /\ \/ endpoint = "custom_get"
                              \/ endpoint = "predict" /\ DOMAIN row # {}
             IN  /\ pQueries' = Append(pQueries, Issued(q, out))
                 /\ pData' = row
                 /\ IF scored
                    THEN /\ pVector' = Assembled(DataFrameRow(pInfo.features, row))
                         /\ pTrace' = pTrace \o <<"fetch", "assemble">>
                         /\ pPc' = "score" /\ pResp' = NoResult
                    ELSE /\ pTrace' = Append(pTrace, "fetch")
                         /\ pPc' = "done"
                         /\ UNCHANGED pVector
                         /\ pResp' =
                              CASE failed -> LookupFailureResponse(endpoint, out)
                                [] endpoint = "features" /\ ~failed -> CleanedResult(m, row)
                                [] endpoint = "pfeatures" /\ ~failed ->
                                      FeaturesResult(pReq.mission, pInfo.features, row)
                                [] OTHER -> HttpError(404)
    /\ UNCHANGED <<pReq, pInfo, pScore, storeVars>>
    /\ UNCHANGED notPredict

\* model.predict_proba returns or raises in the worker thread; the handler
\* classifies and builds its result.
ScoreDone ==
    /\ pPc = "score"
    /\ \E sc \in ScorerOutcomes :
         /\ pScore' = sc
         /\ IF sc.kind = "proba"
            THEN /\ pTrace' = pTrace \o <<"score", "classify">>
                 /\ pResp' = PredictionResult(pReq.mission, sc.p, pInfo.threshold.v,
                                              pInfo.features, pData)
            ELSE /\ pTrace' = Append(pTrace, "score")
                 /\ pResp' = HttpError(IF sc.kind = "ValueError" THEN 400 ELSE 500)
    /\ pPc' = "done"
    /\ UNCHANGED <<pReq, pInfo, pData, pVector, pQueries, storeVars>>
    /\ UNCHANGED notPredict

\* ExoplanetClassifier(mission).predict(raw), start to end.
ClassifierPredict ==
    /\ pPc = "idle"
    /\ \E mission \in RawMissions, sc \in ScorerOutcomes :
         LET res == LoadClassifier(store, mission) IN
         /\ fileReads' = IF Upper(mission) \in {TESS, KEPLER, K2}
                         THEN CountReads(fileReads, ClassifierPaths(Upper(mission)), res.reads)
                         ELSE fileReads
         /\ IF res.kind # "ok"
            THEN /\ pReq' = Request("classifier", mission, <<>>, FALSE, NoRow)
                 /\ pResp' = RaisedModelError
                 /\ pTrace' = <<"load">>
                 /\ UNCHANGED <<pInfo, pData, pVector, pScore, heap>>
            ELSE \E raw \in RawMappings(res.info.features) :
                   LET order == res.info.features
                       prep  == PrepareFeatures(order, raw)
                   IN  /\ pReq' = Request("classifier", mission, <<>>, TRUE, raw)
                       /\ heap' = heap + 1
                       /\ pInfo' = res.info
                       /\ pData' = raw
                       /\ IF prep.raised
                          THEN /\ pVector' = [state |-> "raised", v |-> <<>>]
                               /\ pScore' = NoScore
                               /\ pTrace' = <<"load", "assemble">>
                               /\ pResp' = RaisedModelError
                          ELSE /\ pVector' = Assembled(prep.vector)
                               /\ pScore' = sc
                               /\ IF sc.kind = "proba" /\ res.info.threshold.isnum
                                  THEN /\ pTrace' = <<"load", "assemble", "score", "classify">>
                                       /\ pResp' = ClassifierResult(Upper(mission), sc.p,
                                                       res.info.threshold.v, order, raw)
                                  ELSE /\ pTrace' = <<"load", "assemble", "score">>
                                       /\ pResp' = RaisedModelError
    /\ pPc' = "done"
    /\ UNCHANGED <<pQueries, store, lru>>
    /\ UNCHANGED notPredict

\* The mission of a /resolve response as a path segment.
MissionSegment(mission) ==
    CASE mission = "TESS" -> TESS
      [] mission = "Kepler" -> <<"K","e","p","l","e","r">>
      [] mission = "K2" -> K2

\* A client that resolved a target asks for the prediction of what /resolve
\* answered: GET /predict/{mission}/{numeric_id}, up to the first await.
PredictResolved ==
    /\ pPc = "idle"
    /\ rPc = "done"
    /\ rResp.status = 200
    /\ pReq' = Request("predict", MissionSegment(rResp.mission), rResp.numeric_id, FALSE, NoRow)
    /\ pPc' = "load"
    /\ pResp' = NoResult
    /\ pTrace' = <<>>
    /\ UNCHANGED <<pInfo, pData, pVector, pScore, pQueries, storeVars>>
    /\ UNCHANGED notPredict

NextPredict ==
    \/ PredictStart
    \/ LoadDone
    \/ FetchDone
    \/ ScoreDone
    \/ ClassifierPredict

(***************************************************************************)
(* get_model_info under lru_cache and get_classifier, called from worker   *)
(* threads                                                                 *)
(***************************************************************************)
NumThreads == 2

MaxCalls == 3

Threads == 1..NumThreads

InfoArgs == { TESS, <<"t","e","s","s">>, KEPLER, K2, <<"X","Y","Z">> }

ClassifierArgs == { TESS, <<"k","2">> }

NoCall == [fn |-> "", arg |-> <<>>, miss |-> FALSE]

Call(fn, arg, miss) == [fn |-> fn, arg |-> arg, miss |-> miss]

NoGot == [kind |-> "none", obj |-> 0, reads |-> 0]

Got(kind, obj, reads) == [kind |-> kind, obj |-> obj, reads |-> reads]

NoClassifier == Artifact(0, NoInfo)

\* A completed call as an instrumented caller sees it: what was called, what
\* came back, how many files that call read, and whether the mission's three
\* files were all there and readable when it completed.
FilesIntact(st, fn, arg) ==
    /\ Upper(arg) \in {TESS, KEPLER, K2}
    /\ LET paths == IF fn = "get_classifier" THEN ClassifierPaths(Upper(arg))
                    ELSE ModelPaths(Upper(arg))
       IN  \A i \in 1..3 : st[PathSeq(paths)[i]].kind \notin {"absent", "corrupt"}

Done(call, got, st) ==
    [fn |-> call.fn, arg |-> call.arg, miss |-> call.miss, kind |-> got.kind,
     obj |-> got.obj, reads |-> got.reads, intact |-> FilesIntact(st, call.fn, call.arg)]

\* The lru_cache wrapper looks the argument up: a hit returns the cached
\* dict, a miss goes on to call the function.
InfoCall(t) ==
    /\ tPc[t] = "idle"
    /\ calls < MaxCalls
    /\ \E arg \in InfoArgs :
         LET hit == arg \in LruKeys(lru) IN
         /\ tCall' = [tCall EXCEPT ![t] = Call("get_model_info", arg, ~hit)]
         /\ IF hit
            THEN /\ lru' = LruTouch(lru, arg)
                 /\ tGot' = [tGot EXCEPT ![t] = Got("ok", lru[LruIndex(lru, arg)].value.obj, 0)]
                 /\ tPc' = [tPc EXCEPT ![t] = "returned"]
                 /\ loadLog' = Append(loadLog, Done(tCall'[t], tGot'[t], store))
            ELSE /\ tPc' = [tPc EXCEPT ![t] = "loading"]
                 /\ UNCHANGED <<lru, tGot, loadLog>>
    /\ calls' = calls + 1
    /\ UNCHANGED <<store, fileReads, heap, clsCache>>
    /\ UNCHANGED notLoad

\* The function body ran in this thread; the wrapper stores the result unless
\* the key was stored meanwhile, and returns this thread's own result.
InfoLoad(t) ==
    /\ tPc[t] = "loading"
    /\ LET arg == tCall[t].arg
           res == LoadModelInfo(store, arg)
       IN  /\ fileReads' = IF res.kind = "ValueError" THEN fileReads
                           ELSE CountReads(fileReads, ModelPaths(Upper(arg)), res.reads)
           /\ IF res.kind = "ok"
              THEN /\ heap' = heap + 1
                   /\ lru' = LruStore(lru, arg, Artifact(heap + 1, res.info))
                   /\ tGot' = [tGot EXCEPT ![t] = Got("ok", heap + 1, res.reads)]
              ELSE /\ tGot' = [tGot EXCEPT ![t] = Got(res.kind, 0, res.reads)]
                   /\ UNCHANGED <<heap, lru>>
    /\ tPc' = [tPc EXCEPT ![t] = "returned"]
    /\ loadLog' = Append(loadLog, Done(tCall[t], tGot'[t], store))
    /\ UNCHANGED <<store, clsCache, tCall, calls>>
    /\ UNCHANGED notLoad

\* get_classifier: mission = mission.upper(); if mission not in _model_cache
ClassifierCall(t) ==
    /\ tPc[t] = "idle"
    /\ calls < MaxCalls
    /\ \E arg \in ClassifierArgs :
         LET cached == clsCache[Upper(arg)].obj # 0 IN
         /\ tCall' = [tCall EXCEPT ![t] = Call("get_classifier", arg, ~cached)]
         /\ tPc' = [tPc EXCEPT ![t] = IF cached THEN "fetching" ELSE "constructing"]
    /\ calls' = calls + 1
    /\ UNCHANGED <<storeVars, clsCache, tGot, loadLog>>
    /\ UNCHANGED notLoad

\* _model_cache[mission] = ExoplanetClassifier(mission)
ClassifierConstruct(t) ==
    /\ tPc[t] = "constructing"
    /\ LET m == Upper(tCall[t].arg)
           res == LoadClassifier(store, m)
       IN  /\ fileReads' = CountReads(fileReads, ClassifierPaths(m), res.reads)
           /\ IF res.kind = "ok"
              THEN /\ heap' = heap + 1
                   /\ clsCache' = [clsCache EXCEPT ![m] = Artifact(heap + 1, res.info)]
                   /\ tGot' = [tGot EXCEPT ![t] = Got("constructed", heap + 1, res.reads)]
                   /\ tPc' = [tPc EXCEPT ![t] = "fetching"]
                   /\ UNCHANGED loadLog
              ELSE /\ tGot' = [tGot EXCEPT ![t] = Got("ModelError", 0, res.reads)]
                   /\ tPc' = [tPc EXCEPT ![t] = "returned"]
                   /\ loadLog' = Append(loadLog, Done(tCall[t], tGot'[t], store))
                   /\ UNCHANGED <<heap, clsCache>>
    /\ UNCHANGED <<store, lru, tCall, calls>>
    /\ UNCHANGED notLoad

\* return _model_cache[mission]
ClassifierFetch(t) ==
    /\ tPc[t] = "fetching"
    /\ tGot' = [tGot EXCEPT ![t] = Got("ok", clsCache[Upper(tCall[t].arg)].obj, tGot[t].reads)]
    /\ tPc' = [tPc EXCEPT ![t] = "returned"]
    /\ loadLog' = Append(loadLog, Done(tCall[t], tGot'[t], store))
    /\ UNCHANGED <<storeVars, clsCache, tCall, calls>>
    /\ UNCHANGED notLoad

\* The caller has taken the result; the thread is free for the next call.
CallReturn(t) ==
    /\ tPc[t] = "returned"
    /\ tPc' = [tPc EXCEPT ![t] = "idle"]
    /\ tCall' = [tCall EXCEPT ![t] = NoCall]
    /\ tGot' = [tGot EXCEPT ![t] = NoGot]
    /\ UNCHANGED <<storeVars, clsCache, calls, loadLog>>
    /\ UNCHANGED notLoad

\* Outside the program: one file of the K2 model is deleted or overwritten
\* with something that cannot be unpickled.
DamageFile ==
    /\ store = StoreTrained
    /\ \E i \in 1..3, d \in {Absent, Corrupt} :
         store' = [store EXCEPT ![PathSeq(ModelPaths(K2))[i]] = d]
    /\ UNCHANGED <<lru, fileReads, heap, loadVars>>
    /\ UNCHANGED notLoad

\* Outside the program: the trained files are put back.
RestoreFiles ==
    /\ store # StoreTrained
    /\ store' = StoreTrained
    /\ UNCHANGED <<lru, fileReads, heap, loadVars>>
    /\ UNCHANGED notLoad

InfoCalls == \E t \in Threads : InfoCall(t)

InfoLoads == \E t \in Threads : InfoLoad(t)

ClassifierCalls == \E t \in Threads : ClassifierCall(t)

ClassifierConstructs == \E t \in Threads : ClassifierConstruct(t)

ClassifierFetches == \E t \in Threads : ClassifierFetch(t)

CallReturns == \E t \in Threads : CallReturn(t)

NextLoad ==
    \/ InfoCalls
    \/ InfoLoads
    \/ ClassifierCalls
    \/ ClassifierConstructs
    \/ ClassifierFetches
    \/ CallReturns

\* A client that waits for each answer before it asks again: every call runs
\* on one worker and no two calls overlap.  The files may change in between.
Caller == 1

NextSequential ==
    \/ InfoCall(Caller)
    \/ InfoLoad(Caller)
    \/ ClassifierCall(Caller)
    \/ ClassifierConstruct(Caller)
    \/ ClassifierFetch(Caller)
    \/ CallReturn(Caller)
    \/ DamageFile
    \/ RestoreFiles

(***************************************************************************)
(* utils.cache: the disk cache and the cached decorator                    *)
(***************************************************************************)
\* ":".join(key_parts)
RECURSIVE JoinColon(_)
JoinColon(parts) ==
    IF parts = <<>> THEN <<>>
    ELSE IF Len(parts) = 1 THEN parts[1]
    ELSE parts[1] \o <<":">> \o JoinColon(Tail(parts))

KwMission == <<"m","i","s","s","i","o","n">>

KwTargetId == <<"t","a","r","g","e","t","_","i","d">>

\* The keyword names in use, in the order sorted() gives them.
KeywordOrder == <<KwMission, KwTargetId>>

Kw(k, v) == [k |-> k, v |-> v]

\* sorted(kwargs.items())
SortedItems(kwargs) ==
    LET names == SelectSeq(KeywordOrder, LAMBDA k : \E item \in kwargs : item.k = k)
    IN  [i \in 1..Len(names) |-> CHOOSE item \in kwargs : item.k = names[i]]

\* key_parts = [prefix] + [str(arg) ...] + [f"{k}={v}" for sorted kwargs]
get_cache_key(prefix, args, kwargs) ==
    LET items == SortedItems(kwargs)
    IN  JoinColon(<<prefix>> \o [i \in 1..Len(args) |-> PyStr(args[i])]
                   \o [i \in 1..Len(items) |-> items[i].k \o <<"=">> \o PyStr(items[i].v)])

CachedCallOf(prefix, args, kwargs) == [prefix |-> prefix, args |-> args, kwargs |-> kwargs]

PrefixPredict == <<"p","r","e","d","i","c","t">>

PrefixCoordinates ==
    <<"c","o","o","r","d","i","n","a","t","e","s","_","f","r","o","m","_","a","r","c","h","i","v","e">>

\* Calls of two decorated functions: get_coordinates_from_archive(mission,
\* target_id), called with positional arguments, and predict_exoplanet, which
\* the framework calls with keyword arguments.
CachedCalls ==
    { CachedCallOf(PrefixCoordinates, <<JStr(TESS), JNum(1)>>, {}),
      CachedCallOf(PrefixCoordinates, <<JStr(TESS), JStr(<<"1">>)>>, {}),
      CachedCallOf(PrefixCoordinates, <<JStr(K2), JNum(1)>>, {}),
      CachedCallOf(PrefixPredict, <<>>, {Kw(KwMission, JStr(TESS)), Kw(KwTargetId, JStr(<<"1">>))}),
      CachedCallOf(PrefixPredict, <<>>, {Kw(KwMission, JStr(<<"t","e","s","s">>)),
                                         Kw(KwTargetId, JStr(<<"1">>))}),
      CachedCallOf(PrefixPredict, <<JStr(KwMission \o <<"=">> \o TESS),
                                    JStr(KwTargetId \o <<"=","1">>)>>, {}) }

NoCall0 == CachedCallOf(<<>>, <<>>, {})

\* What a wrapped function returns: None, or a value that is the answer to
\* one call.
NoneValue == [none |-> TRUE, of |-> NoCall0]

ValueOf(call) == [none |-> FALSE, of |-> call]

\* The wrapped function returns its value, returns None, or raises.
FuncOutcomes(call) ==
    { [kind |-> "returns", value |-> ValueOf(call)],
      [kind |-> "returns", value |-> NoneValue],
      [kind |-> "raises", value |-> NoneValue] }

NoFunc == [kind |-> "not called", value |-> NoneValue]

EmptyCache == [k \in {} |-> NoneValue]

NoCachedCall == [pc |-> "idle", call |-> NoCall0, key |-> <<>>]

\* How a cached call ended: what the caller got, and what the wrapped
\* function had done.
Ended(call, key, kind, value, func) ==
    [call |-> call, key |-> key, kind |-> kind, value |-> value, func |-> func]

MaxCachedCalls == 2

\* async_wrapper / sync_wrapper is entered: the key is computed.
CachedEnter ==
    /\ cCall.pc = "idle"
    /\ Len(cLog) < MaxCachedCalls
    /\ \E call \in CachedCalls :
         cCall' = [pc |-> "get", call |-> call,
                   key |-> get_cache_key(call.prefix, call.args, call.kwargs)]
    /\ UNCHANGED <<diskcache, cLog>>
    /\ UNCHANGED notCache

\* result = cache.get(cache_key): the backend answers or fails; a stored
\* value that is not None is returned at once.
CacheGet ==
    /\ cCall.pc = "get"
    /\ \E backendOk \in BOOLEAN :
         IF backendOk /\ cCall.key \in DOMAIN diskcache /\ ~diskcache[cCall.key].none
         THEN /\ cLog' = Append(cLog, Ended(cCall.call, cCall.key, "returns",
                                            diskcache[cCall.key], NoFunc))
              /\ cCall' = NoCachedCall
         ELSE /\ cCall' = [cCall EXCEPT !.pc = "func"]
              /\ UNCHANGED cLog
    /\ UNCHANGED diskcache
    /\ UNCHANGED notCache

\* cache.set(cache_key, result, expire=ttl)
CacheSet(c, key, value, backendOk) ==
    IF backendOk THEN [ok |-> TRUE, stored |-> (key :> value) @@ c]
    ELSE [ok |-> FALSE, stored |-> c]

\* result = func(...); cache.set(...); return result.  An exception of either
\* statement is logged and raised again.
FuncDone ==
    /\ cCall.pc = "func"
    /\ \E r \in FuncOutcomes(cCall.call), backendOk \in BOOLEAN :
         LET set == CacheSet(diskcache, cCall.key, r.value, backendOk)
         IN  IF r.kind = "raises"
             THEN /\ cLog' = Append(cLog, Ended(cCall.call, cCall.key, "raises", NoneValue, r))
                  /\ UNCHANGED diskcache
             ELSE /\ diskcache' = set.stored
                  /\ cLog' = Append(cLog, Ended(cCall.call, cCall.key,
                                                IF set.ok THEN "returns" ELSE "raises",
                                                IF set.ok THEN r.value ELSE NoneValue, r))
    /\ cCall' = NoCachedCall
    /\ UNCHANGED notCache

\* An entry reaches its ttl and is dropped.
CacheExpire ==
    /\ \E k \in DOMAIN diskcache :
         diskcache' = [j \in DOMAIN diskcache \ {k} |-> diskcache[j]]
    /\ UNCHANGED <<cCall, cLog>>
    /\ UNCHANGED notCache

NextCache ==
    \/ CachedEnter
    \/ CacheGet
    \/ FuncDone
    \/ CacheExpire

(***************************************************************************)
(* GET /lightcurve/{mission}/{target_id}: the download strategies          *)
(***************************************************************************)
LightcurveMissions ==
    { TESS, <<"t","e","s","s">>, KEPLER, <<"K","e","p","l","e","r">>, K2, <<"k","2">>,
      <<"X","Y","Z">> }

LightcurveTargets == {1, 2, 757450, 10666592}

NoLightcurveRequest == [mission |-> <<>>, target_id |-> 0]

NoLightcurve == [status |-> 0, target_id |-> 0, method |-> "", data_of |-> 0]

LightcurveFailed(code) == [NoLightcurve EXCEPT !.status = code]

\* The dict a download returns: target_id is the identifier the download was
\* called with, data_of the identifier the archive was asked for.
LightcurveData(id, method) ==
    [status |-> 200, target_id |-> id, method |-> method, data_of |-> id]

\* One request to an archive: the strategy that made it and the identifier
\* it asked for.
Asked(strategy, id) == [strategy |-> strategy, id |-> id]

\* search_patterns of strategy 1: all are spellings of kep_id
LightkurvePatterns == <<"catalog name", "file name", "number", "mission name">>

\* alternative_ids of strategy 3
alternative_ids(mission, kep_id) ==
    IF mission = KEPLER THEN <<kep_id + 1, kep_id - 1, kep_id>>
    ELSE <<kep_id + 1, kep_id - 1>>

AlternativesTried == Len(SelectSeq(lTried, LAMBDA a : a.strategy = "alternative"))

\* get_lightcurve up to its first await.
LightcurveStart ==
    /\ lPc = "idle"
    /\ \E mission \in LightcurveMissions, target_id \in LightcurveTargets :
         /\ lReq' = [mission |-> mission, target_id |-> target_id]
         /\ IF Upper(mission) \notin {TESS, KEPLER, K2}
            THEN lPc' = "done" /\ lResp' = LightcurveFailed(400)
            ELSE IF Upper(mission) = TESS
            THEN lPc' = "coordinates" /\ lResp' = NoLightcurve
            ELSE lPc' = "lightkurve" /\ lResp' = NoLightcurve
    /\ lTried' = <<>>
    /\ UNCHANGED notLight

\* coords = await get_coordinates_from_archive(mission, target_id)
CoordinatesDone ==
    /\ lPc = "coordinates"
    /\ lTried' = Append(lTried, Asked("coordinates", lReq.target_id))
    /\ \E out \in {"raises", "no position", "position"} :
         IF out = "position"
         THEN lPc' = "tesscut" /\ lResp' = NoLightcurve
         ELSE lPc' = "done" /\ lResp' = LightcurveFailed(500)
    /\ UNCHANGED lReq
    /\ UNCHANGED notLight

\* lightcurve_data = await download_tess_lightcurve(target_id, ra, dec)
TessCutDone ==
    /\ lPc = "tesscut"
    /\ lTried' = Append(lTried, Asked("tesscut", lReq.target_id))
    /\ \E found \in BOOLEAN :
         lResp' = IF found THEN LightcurveData(lReq.target_id, "tesscut")
                  ELSE LightcurveFailed(500)
    /\ lPc' = "done"
    /\ UNCHANGED lReq
    /\ UNCHANGED notLight

\* Strategy 1 of _download_kepler_sync: the search patterns are tried in
\* order until one gives data; with none, the astroquery fallback is next.
LightkurveDone ==
    /\ lPc = "lightkurve"
    /\ \E n \in 0..Len(LightkurvePatterns) :
         LET tried == IF n = 0 THEN Len(LightkurvePatterns) ELSE n
         IN  /\ lTried' = lTried \o [i \in 1..tried |-> Asked(LightkurvePatterns[i], lReq.target_id)]
             /\ IF n = 0
                THEN lPc' = "astroquery" /\ lResp' = NoLightcurve
                ELSE lPc' = "done" /\ lResp' = LightcurveData(lReq.target_id, "lightkurve")
    /\ UNCHANGED lReq
    /\ UNCHANGED notLight

\* Strategy 2: return _download_kepler_astroquery(kep_id, mission)
AstroqueryDone ==
    /\ lPc = "astroquery"
    /\ lTried' = Append(lTried, Asked("astroquery", lReq.target_id))
    /\ \E found \in BOOLEAN :
         IF found
         THEN lPc' = "done" /\ lResp' = LightcurveData(lReq.target_id, "astroquery")
         ELSE lPc' = "alternatives" /\ lResp' = NoLightcurve
    /\ UNCHANGED lReq
    /\ UNCHANGED notLight

\* Strategy 3: for alt_id in alternative_ids:
\*     return _download_kepler_astroquery(alt_id, mission)
\* and LightcurveError, answered 500, when the last one failed.
AlternativeDone ==
    /\ lPc = "alternatives"
    /\ LET ids == alternative_ids(Upper(lReq.mission), lReq.target_id)
           alt_id == ids[AlternativesTried + 1]
       IN  /\ lTried' = Append(lTried, Asked("alternative", alt_id))
           /\ \E found \in BOOLEAN :
                IF found
                THEN lPc' = "done" /\ lResp' = LightcurveData(alt_id, "astroquery")
                ELSE IF AlternativesTried + 1 = Len(ids)
                THEN lPc' = "done" /\ lResp' = LightcurveFailed(500)
                ELSE lPc' = "alternatives" /\ lResp' = NoLightcurve
    /\ UNCHANGED lReq
    /\ UNCHANGED notLight

NextLightcurve ==
    \/ LightcurveStart
    \/ CoordinatesDone
    \/ TessCutDone
    \/ LightkurveDone
    \/ AstroqueryDone
    \/ AlternativeDone

(***************************************************************************)
(* Claims about the parser                                                 *)
(***************************************************************************)
\* id is a number, stands in t verbatim, and is all of t's numeric part: no
\* digit or point of t is dropped before it (leading zeros) or after it
\* (decimal suffix).
NumericIdVerbatim(id, t) ==
    /\ IsNumber(id)
    /\ \E i \in 1..Len(t) :
          /\ IsSubstringAt(id, t, i)
          /\ i > 1 => t[i - 1] \notin Digit \cup {"."}
          /\ \A j \in (i + Len(id))..Len(t) : t[j] \notin Digit \cup {"."}

\* C1: the six documented identifiers, in every letter-case spelling, parse to
\* the documented (mission, numeric_id) pair, and whenever the parser succeeds
\* numeric_id is the numeric part of the input verbatim, with its decimal
\* suffix and leading zeros.
C1_DocumentedParse ==
    parsed.called =>
        /\ \A i \in DOMAIN DocTargets :
              Upper(target) = Upper(DocTargets[i]) =>
                  /\ parsed.r.ok
                  /\ parsed.r.mission = DocParsed[i].mission
                  /\ parsed.r.numeric_id = DocParsed[i].numeric_id
        /\ parsed.r.ok => NumericIdVerbatim(parsed.r.numeric_id, target)

C1_Witness ==
    /\ parsed.called
    /\ target = <<"k","0","0","7","5","2",".","0","1">>
    /\ parsed.r.mission = "Kepler"
    /\ parsed.r.numeric_id = <<"0","0","7","5","2",".","0","1">>

(***************************************************************************)
(* Claims about GET /resolve and the catalog lookups                       *)
(***************************************************************************)
rParsed == detect_mission_and_id(rTarget)

KoiLookupMade == rPc \in {"koi_query1", "koi_query2"} \/ (rPc = "done" /\ rLookup.kind # "none"
                                                          /\ rParsed.mission = "Kepler")

ReturnedEmpty(i) == rQueries[i].outcome.kind = "rows" /\ rQueries[i].outcome.rows = <<>>

ReturnedRows(i) == rQueries[i].outcome.kind = "rows" /\ rQueries[i].outcome.rows # <<>>

\* lit is "K", then zeros, then id, nine characters long unless id alone has
\* more than eight.
IsZeroPaddedKoiName(lit, id) ==
    /\ Len(lit) = 1 + (IF Len(id) > 8 THEN Len(id) ELSE 8)
    /\ lit[1] = "K"
    /\ After(lit, Len(lit) - Len(id)) = id
    /\ \A i \in 2..(Len(lit) - Len(id)) : lit[i] = "0"

\* C5: resolve_koi_to_kepid first asks the cumulative table for kepoi_name =
\* 'K' + numeric_id zero-padded to 8; it asks a second time, for the unpadded
\* numeric_id, exactly when the first answer had no rows; it never asks a
\* third time; it fails with not-found only when both answers had no rows,
\* returns the first row of the first answer that has rows, and a failing first
\* query is not followed by a second one.
C5_KoiFallback ==
    KoiLookupMade =>
        /\ Len(rQueries) <= 2
        /\ \A i \in 1..Len(rQueries) :
              /\ rQueries[i].query.table = "cumulative"
              /\ rQueries[i].query.column = "kepoi_name"
              /\ rQueries[i].query.quoted
        /\ Len(rQueries) >= 1 =>
              IsZeroPaddedKoiName(rQueries[1].query.literal, rParsed.numeric_id)
        /\ Len(rQueries) = 2 =>
              /\ ReturnedEmpty(1)
              /\ rQueries[2].query.literal = rParsed.numeric_id
        /\ (rPc = "done" /\ ReturnedEmpty(1)) => Len(rQueries) = 2
        /\ rPc = "koi_query2" <=> (Len(rQueries) = 1 /\ ReturnedEmpty(1))
        /\ rLookup.kind = "not_found" =>
              Len(rQueries) = 2 /\ ReturnedEmpty(1) /\ ReturnedEmpty(2)
        /\ \A i \in 1..Len(rQueries) :
              ReturnedRows(i) =>
                  /\ rLookup.kind = "returned"
                  /\ rLookup.row = rQueries[i].outcome.rows[1]
                  /\ i = Len(rQueries)
        /\ (Len(rQueries) >= 1 /\ rQueries[1].outcome.kind = "error") =>
              /\ Len(rQueries) = 1
              /\ rLookup.kind = "query_failed"

C5_Witness ==
    /\ rPc = "done"
    /\ rTarget = <<"K","O","I","-","7","5","2",".","0","1">>
    /\ Len(rQueries) = 2
    /\ rQueries[1].query.literal = <<"K","0","0","7","5","2",".","0","1">>
    /\ rQueries[2].query.literal = <<"7","5","2",".","0","1">>
    /\ rLookup.kind = "returned"

\* C8: a query that fails at transport level during the TOI or KOI lookup ends
\* the request with a 502, never with a successful resolution.
C8_UpstreamFailureIs502 ==
    (rPc = "done" /\ rLookup.kind = "query_failed") => rResp.status = 502

\* C9: when the TOI or KOI lookup finds no rows the request still succeeds,
\* with the parser's mission and numeric_id and an empty metadata mapping.
C9_NotFoundProceeds ==
    (rPc = "done" /\ rLookup.kind = "not_found") =>
        /\ rResp.status = 200
        /\ rResp.mission = rParsed.mission
        /\ rResp.numeric_id = rParsed.numeric_id
        /\ DOMAIN rResp.metadata = {}

C9_Witness ==
    /\ rPc = "done"
    /\ rLookup.kind = "not_found"
    /\ rTarget = <<"T","O","I","-","1","0","1","9",".","0","1">>
    /\ rResp.status = 200
    /\ rResp.numeric_id = <<"1","0","1","9",".","0","1">>

\* The sub-schema of the lookup that was made.
MetadataKeys == IF rParsed.mission = "TESS" THEN ToiMetadataKeys ELSE KoiMetadataKeys

\* C16: no key of a response's metadata has a null value; after a lookup that
\* returned a row the metadata holds exactly the sub-schema columns that are
\* non-null in that row, with the row's values; otherwise it is empty.
C16_MetadataHasNoNulls ==
    rPc = "done" =>
        /\ \A k \in DOMAIN rResp.metadata : rResp.metadata[k] # JNull
        /\ rLookup.kind = "returned" =>
              /\ DOMAIN rResp.metadata =
                    {k \in MetadataKeys : k \in DOMAIN rLookup.row /\ rLookup.row[k] # JNull}
              /\ \A k \in DOMAIN rResp.metadata : rResp.metadata[k] = rLookup.row[k]
        /\ rLookup.kind # "returned" => DOMAIN rResp.metadata = {}

C16_Witness ==
    /\ rPc = "done"
    /\ rLookup.kind = "returned"
    /\ rLookup.row = ToiRowFull
    /\ DOMAIN rResp.metadata = {"toi", "tid", "tfopwg_disp"}

\* No pattern of any of the five families matches s.
NothingMatches(s) ==
    /\ ~PrefixedNumber(s, <<"T","O","I">>).matched /\ ~BareNumber(s).matched
    /\ ~PrefixedNumber(s, <<"K","O","I">>).matched /\ ~KNumber(s).matched
    /\ ~PrefixedNumber(s, <<"K","2">>).matched /\ ~PrefixedDigits(s, <<"E","P","I","C">>).matched
    /\ ~PrefixedDigits(s, <<"T","I","C">>).matched /\ ~PrefixedDigits(s, <<"T","E","S","S">>).matched
    /\ ~PrefixedDigits(s, <<"K","I","C">>).matched /\ ~KeplerName(s).matched

\* C17: detect_mission_and_id fails with the unrecognized-format error exactly
\* when no pattern matches the stripped target; GET /resolve then answers 400
\* without having issued a query, and answers 400 in no other case.
C17_UnrecognizedIs400 ==
    rPc # "idle" =>
        /\ ~rParsed.ok <=> NothingMatches(Strip(rTarget))
        /\ ~rParsed.ok => rPc = "done" /\ rResp.status = 400 /\ rQueries = <<>>
        /\ rResp.status = 400 => ~rParsed.ok

C17_Witness ==
    /\ rPc = "done"
    /\ rTarget = <<"X","Y","Z","-","9","9","9">>
    /\ rResp.status = 400
    /\ rQueries = <<>>

\* The parser took the target for a TOI: the first family matched.
ViaToiFamily == rParsed.ok /\ FirstMatch(toi_patterns(Strip(rTarget))).matched

\* C20: for every target the parser assigns to TESS through the TOI family, a
\* bare number included, the request issues the TOI-table lookup for that TOI
\* number, and when a row comes back it reports the row's tid as numeric_id
\* and the TOI sub-schema as metadata.
C20_ToiFamilyIsLookedUp ==
    (rPc = "done" /\ ViaToiFamily) =>
        /\ Len(rQueries) = 1
        /\ rQueries[1].query.table = "toi"
        /\ rQueries[1].query.column = "toi"
        /\ rQueries[1].query.literal = rParsed.numeric_id
        /\ (rLookup.kind = "returned" /\ Get(rLookup.row, "tid", JNull) # JNull) =>
              /\ rResp.numeric_id = PyStr(rLookup.row["tid"])
              /\ DOMAIN rResp.metadata \subseteq ToiMetadataKeys

\* The primary key the response takes from a row of the mission's table.
PrimaryKey == IF rParsed.mission = "TESS" THEN "tid" ELSE "kepid"

\* C26: the numeric_id of a /resolve response is the parser's numeric id or
\* the string form of the non-null primary key of the first row returned; a
\* row whose primary key is present but null leaves the parsed numeric id.
C26_ResolvedIdIsParsedOrKey ==
    (rPc = "done" /\ rResp.status = 200) =>
        IF rLookup.kind = "returned" /\ Get(rLookup.row, PrimaryKey, JNull) # JNull
        THEN rResp.numeric_id = PyStr(rLookup.row[PrimaryKey])
        ELSE rResp.numeric_id = rParsed.numeric_id

\* C27: /resolve issues a KOI-table lookup only for targets the parser
\* matched through the KOI family; a target matched through the Kepler, TIC
\* or K2 family issues no query and keeps the parsed numeric id.
C27_OnlyKoiFamilyIsLookedUp ==
    LET s == Strip(rTarget)
        viaKoi == ~FirstMatch(toi_patterns(s)).matched /\ FirstMatch(koi_patterns(s)).matched
        viaToi == FirstMatch(toi_patterns(s)).matched
    IN  (rPc # "idle" /\ rParsed.ok) =>
           /\ (\E i \in DOMAIN rQueries : rQueries[i].query.table = "cumulative") => viaKoi
           /\ (~viaKoi /\ ~viaToi) =>
                 /\ rQueries = <<>>
                 /\ rPc = "done" => rResp.numeric_id = rParsed.numeric_id

(***************************************************************************)
(* Claims about classification and feature assembly                        *)
(***************************************************************************)
\* The request is a call of ExoplanetClassifier.predict whose classifier loaded.
ClassifierCalled == pReq.endpoint = "classifier" /\ pReq.hasBody

\* C2: every prediction path that yields a classification (GET /predict, the
\* two custom-feature endpoints, ExoplanetClassifier.predict) yields CONFIRMED
\* exactly when the probability the scorer returned is greater than or equal
\* to the threshold of the loaded artifact, and FALSE_POSITIVE otherwise.
C2_ThresholdComparison ==
    pResp.kind \in {"prediction", "classifier"} =>
        /\ pReq.endpoint \in {"predict", "custom_get", "custom_post", "classifier"}
        /\ pScore.kind = "proba"
        /\ pInfo.threshold.isnum
        /\ pResp.classification \in {"CONFIRMED", "FALSE_POSITIVE"}
        /\ pResp.classification = "CONFIRMED" <=> pScore.p >= pInfo.threshold.v

C2_Witness ==
    /\ pResp.kind = "prediction"
    /\ pReq.endpoint = "predict"
    /\ pScore.p = pInfo.threshold.v
    /\ pResp.classification = "CONFIRMED"

SentinelPolicy ==
    [v \in RawValues |->
        CASE v = JNull -> JNum(0)
          [] v = JStr(<<>>) -> JNum(0)
          [] v = JStr(<<"n","a","n">>) -> JNum(0)
          [] v = JStr(<<"N","a","N">>) -> JNum(0)
          [] v = JStr(<<"N","U","L","L">>) -> JNum(0)
          [] v = JStr(<<"n","u","l","l">>) -> JNum(0)
          [] v = JStr(<<"a","b","c">>) -> JNum(0)
          [] v = JList -> JNum(0)
          [] v = JStr(<<"1",".","5">>) -> JNum(15)
          [] v = JStr(<<" ","-","2"," ">>) -> JNum(0 - 20)
          [] v = JStr(<<"n","a","n"," ">>) -> JNaN
          [] v = JBool(TRUE) -> JNum(10)
          [] OTHER -> v]

\* C4: entry i of the vector of prepare_features is 0.0 when feature_order[i]
\* is not in the raw mapping or its value is null, "", "nan" or "null" in any
\* letter case, or no number; otherwise it is the raw value as a number.  An
\* empty mapping gives 0.0 everywhere.
C4_SentinelPolicy ==
    ClassifierCalled =>
        /\ pVector.state = "ok"
        /\ \A i \in 1..Len(pInfo.features) :
              LET name == pInfo.features[i] IN
              pVector.v[i] = IF name \in DOMAIN pData THEN SentinelPolicy[pData[name]]
                             ELSE JNum(0)
        /\ DOMAIN pData = {} => \A i \in DOMAIN pVector.v : pVector.v[i] = JNum(0)

C4_Witness ==
    /\ ClassifierCalled
    /\ pInfo.features[1] \in DOMAIN pData
    /\ pData[pInfo.features[1]] = JStr(<<"N","a","N">>)
    /\ pVector.v[1] = JNum(0)
    /\ pResp.kind = "classifier"

\* The threshold file of the mission of this request.
ThresholdFile == store[ModelPaths(Upper(pReq.mission)).threshold]

\* What the documented reading makes of a threshold file: the bare number, or
\* the value under "tau", or else the value under "threshold".
DocumentedThreshold(f) ==
    IF f.kind = "float" THEN f.bare
    ELSE IF "tau" \in f.keys THEN f.tau ELSE f.threshold

\* C14: the threshold get_model_info loads is the bare number of the file, or
\* the dict's "tau" (also when "threshold" is there too), or the dict's
\* "threshold" when that is the only key; and it is the number the prediction
\* reports and compares the probability with.
C14_ThresholdShapes ==
    (/\ pReq.endpoint \in {"predict", "pfeatures", "custom_get", "custom_post"}
     /\ pInfo # NoInfo
     /\ ThresholdFile.kind = "float" \/ ThresholdFile.keys # {}) =>
        /\ pInfo.threshold.isnum
        /\ pInfo.threshold.v = DocumentedThreshold(ThresholdFile)
        /\ pResp.kind = "prediction" =>
              /\ pResp.threshold = DocumentedThreshold(ThresholdFile)
              /\ pResp.classification = "CONFIRMED" <=>
                    pScore.p >= DocumentedThreshold(ThresholdFile)

C14_Witness ==
    /\ pResp.kind = "prediction"
    /\ ThresholdFile = BothDict(80000, 30000)
    /\ pResp.threshold = 80000
    /\ pScore.p = 50000
    /\ pResp.classification = "FALSE_POSITIVE"

\* C15: in GET /predict/{mission}/{target_id} a model feature that the
\* fetched row does not have stands in the vector as 0.0.
C15_MissingIsSentinel ==
    (pReq.endpoint = "predict" /\ pVector.state = "ok") =>
        \A i \in 1..Len(pInfo.features) :
            pInfo.features[i] \notin DOMAIN pData => pVector.v[i] = JNum(0)

(***************************************************************************)
(* Claims about the failures of the feature lookup                         *)
(***************************************************************************)
LastOutcome == pQueries[Len(pQueries)].outcome

FoundNothing == pQueries # <<>> /\ LastOutcome.kind = "rows" /\ LastOutcome.rows = <<>>

UpstreamFailed == pQueries # <<>> /\ LastOutcome.kind = "error"

\* C6: GET /predict/{mission}/{target_id} with a model that loaded: when the
\* feature lookup returns no rows the response is 404, the scorer was not
\* called and no prediction is returned.
C6_NoRowsIs404 ==
    (pReq.endpoint = "predict" /\ pPc = "done" /\ pInfo # NoInfo /\ FoundNothing) =>
        /\ pResp.status = 404
        /\ pScore = NoScore
        /\ pResp.kind # "prediction"

\* C7: for GET /features and GET /predict, a lookup that fails at transport
\* level is answered with a status other than the one the same endpoint gives
\* a lookup that found no rows.
C7_FailureKindsDistinct ==
    (pReq.endpoint \in {"features", "predict"} /\ pPc = "done" /\ UpstreamFailed) =>
        pResp.status #
            LookupFailureResponse(pReq.endpoint, [kind |-> "rows", rows |-> <<>>]).status

(***************************************************************************)
(* Claims about the pattern families of the parser                         *)
(***************************************************************************)
\* C24: the pattern families are pairwise disjoint, so the order in which
\* they are tried decides nothing: a target a family matches (a K2-family
\* match, for one) is parsed as that family's mission with that family's
\* number, and no other family matches it.
C24_FamiliesDisjoint ==
    parsed.called =>
        LET fam == Families(Strip(target))
        IN  \A i \in DOMAIN fam :
              fam[i].m.matched =>
                 /\ parsed.r.ok
                 /\ parsed.r.mission = fam[i].mission
                 /\ parsed.r.numeric_id = fam[i].m.group
                 /\ \A j \in DOMAIN fam : j # i => ~fam[j].m.matched

(***************************************************************************)
(* Claims about the fields of a prediction result                          *)
(***************************************************************************)
\* C25: in every prediction result of the predict router the classification
\* is CONFIRMED exactly when the reported probability (rounded to 4
\* decimals) is at least the reported threshold.
C25_ResultSelfConsistent ==
    (pReq.endpoint \in {"predict", "custom_get", "custom_post"} /\ pResp.kind = "prediction") =>
        (pResp.classification = "CONFIRMED" <=> pResp.probability >= pResp.threshold)

(***************************************************************************)
(* Claims about the target identifier of the predict router                *)
(***************************************************************************)
\* The request went through get_feature_data: its model was loaded and it
\* brought no features of its own.
ThroughFeatureData ==
    /\ pReq.endpoint \in {"predict", "pfeatures", "custom_get"}
    /\ ~pReq.hasBody
    /\ pPc = "done"
    /\ "load" \in Range(pTrace)
    /\ pInfo # NoInfo

\* C21: a target_id that is not an integer string is answered 400 by every
\* endpoint of the predict router that fetches through get_feature_data,
\* never 500.
C21_BadTargetIdIs400 ==
    (ThroughFeatureData /\ ~PyInt(pReq.target_id).ok) => pResp.status = 400

(***************************************************************************)
(* Claims about ExoplanetClassifier.predict                                *)
(***************************************************************************)
ClassifierThresholdFile == store[ClassifierPaths(Upper(pReq.mission)).threshold]

\* predict was called on a constructed classifier, the vector was built and
\* the scorer answered with a probability.
ClassifierScored ==
    /\ pReq.endpoint = "classifier"
    /\ pPc = "done"
    /\ pVector.state = "ok"
    /\ pScore.kind = "proba"

\* C22: when the classifier's threshold file holds {tau: t}, predict succeeds
\* and classifies against t, as it does for a file holding the bare number t.
C22_ClassifierThresholdShapes ==
    (/\ ClassifierScored
     /\ \/ ClassifierThresholdFile.kind = "float"
        \/ "tau" \in ClassifierThresholdFile.keys) =>
        /\ pResp.kind = "classifier"
        /\ pResp.threshold = DocumentedThreshold(ClassifierThresholdFile)
        /\ pResp.classification = "CONFIRMED" <=>
              pScore.p >= DocumentedThreshold(ClassifierThresholdFile)

\* The raw values prepare_features replaces with the default.
DefaultedValues ==
    { JNull, JStr(<<>>), JStr(<<"n","a","n">>), JStr(<<"N","a","N">>),
      JStr(<<"N","U","L","L">>), JStr(<<"n","u","l","l">>), JStr(<<"a","b","c">>), JList }

\* The positions of the vector whose value came from the raw mapping.
FilledFromMapping ==
    {i \in 1..Len(pInfo.features) :
        /\ pInfo.features[i] \in DOMAIN pData
        /\ pData[pInfo.features[i]] \notin DefaultedValues}

\* C23: in the result of ExoplanetClassifier.predict, features_used is the
\* length of feature_order and features_available is the number of vector
\* positions filled from the raw mapping and not with the default.
C23_DiagnosticsSeparateDefaulted ==
    (pReq.endpoint = "classifier" /\ pResp.kind = "classifier") =>
        /\ pResp.count = Len(pInfo.features)
        /\ pResp.available = Cardinality(FilledFromMapping)

(***************************************************************************)
(* Claims about the order of the stages of a prediction                    *)
(***************************************************************************)
Stages == <<"load", "fetch", "assemble", "score", "classify">>

PredictRequest == pReq.endpoint = "predict" /\ pPc # "idle"

\* The archive answered with something a vector cannot be built from.
FetchFailed ==
    /\ pQueries # <<>>
    /\ \/ pQueries[1].outcome.kind = "error"
       \/ pQueries[1].outcome.rows = <<>>
       \/ DOMAIN pQueries[1].outcome.rows[1] = {}

\* C19: a /predict request runs load, fetch, assemble, score, classify in
\* that order, each on the output of the one before; a failed or unsupported
\* load issues no archive query and a failed fetch never invokes the scorer.
C19_StagesInOrder ==
    PredictRequest =>
        /\ Len(pTrace) <= Len(Stages)
        /\ \A i \in 1..Len(pTrace) : pTrace[i] = Stages[i]
        /\ Len(pQueries) <= 1
        /\ ~FilesIntact(store, "get_model_info", pReq.mission) =>
              /\ pQueries = <<>>
              /\ pScore = NoScore
              /\ pPc = "done" => pTrace = <<"load">> /\ pResp.status \in {400, 500}
        /\ pQueries # <<>> =>
              /\ pTrace # <<>>
              /\ pInfo.features = store[ModelPaths(Upper(pReq.mission)).features].names
        /\ "fetch" \in Range(pTrace) => pQueries # <<>>
        /\ "assemble" \in Range(pTrace) =>
              /\ ~FetchFailed
              /\ pData = pQueries[1].outcome.rows[1]
              /\ pVector.state = "ok"
        /\ "score" \in Range(pTrace) => pScore # NoScore
        /\ "classify" \in Range(pTrace) => pScore.kind = "proba" /\ pResp.status = 200
        /\ FetchFailed =>
              /\ pScore = NoScore
              /\ pVector = NoVector
              /\ pPc = "done"
              /\ pResp.status \notin {0, 200}

\* A request whose archive query failed: it stopped after the fetch.
C19_Witness ==
    /\ PredictRequest
    /\ pPc = "done"
    /\ FetchFailed
    /\ pTrace = <<"load", "fetch">>
    /\ pQueries[1].outcome.kind = "error"

(***************************************************************************)
(* The documented end-to-end scenario                                      *)
(***************************************************************************)
Koi752 == <<"K","O","I","-","7","5","2",".","0","1">>

Kepid10666592 == <<"1","0","6","6","6","5","9","2">>

\* The eleven Kepler features in the order of the training script.
KeplerElevenFeatures ==
    <<"koi_period", "koi_duration", "koi_depth", "koi_model_snr", "koi_impact", "koi_prad",
      "koi_teq", "koi_insol", "koi_steff", "koi_slogg", "koi_srad">>

ResolvedKoi752 ==
    /\ rTarget = Koi752
    /\ rPc = "done"
    /\ rLookup.kind = "returned"
    /\ Get(rLookup.row, "kepid", JNull) = JNum(10666592)

\* C18: "KOI-752.01" parses to (Kepler, "752.01"); the lookup asks for
\* kepoi_name 'K00752.01'; a row with kepid 10666592 makes the response report
\* numeric_id "10666592"; the prediction for (Kepler, 10666592) with a scorer
\* answering 0.82 and the threshold 0.5 has an 11-entry vector in the Kepler
\* feature order and returns CONFIRMED with probability 0.82.
C18_EndToEnd ==
    /\ (rTarget = Koi752 /\ rPc # "idle") =>
          /\ rParsed.ok
          /\ rParsed.mission = "Kepler"
          /\ rParsed.numeric_id = <<"7","5","2",".","0","1">>
    /\ (rTarget = Koi752 /\ rQueries # <<>>) =>
          /\ rQueries[1].query.table = "cumulative"
          /\ rQueries[1].query.column = "kepoi_name"
          /\ rQueries[1].query.literal = <<"K","0","0","7","5","2",".","0","1">>
    /\ ResolvedKoi752 =>
          /\ rResp.status = 200
          /\ rResp.mission = "Kepler"
          /\ rResp.numeric_id = Kepid10666592
    /\ (ResolvedKoi752 /\ pPc # "idle") => pReq.target_id = Kepid10666592
    /\ (ResolvedKoi752 /\ pPc \in {"score", "done"} /\ pVector.state = "ok") =>
          /\ pInfo.features = KeplerElevenFeatures
          /\ Len(pVector.v) = 11
          /\ \A i \in 1..11 :
                KeplerElevenFeatures[i] \in DOMAIN pData =>
                    pVector.v[i] = pData[KeplerElevenFeatures[i]]
    /\ (ResolvedKoi752 /\ pPc = "done" /\ pScore.kind = "proba" /\ pScore.p = 82000
            /\ pInfo.threshold.v = 50000) =>
          /\ pResp.status = 200
          /\ pResp.classification = "CONFIRMED"
          /\ pResp.probability = 82000

C18_Witness ==
    /\ ResolvedKoi752
    /\ Len(rQueries) = 1
    /\ pPc = "done"
    /\ pQueries # <<>>
    /\ pQueries[1].query.table = "cumulative"
    /\ pQueries[1].query.literal = Kepid10666592
    /\ pScore.p = 82000
    /\ pInfo.threshold.v = 50000
    /\ pResp.classification = "CONFIRMED"
    /\ pResp.probability = 82000

(***************************************************************************)
(* Claims about the cached decorator                                       *)
(***************************************************************************)
\* C28: a cached call fails only when the wrapped function fails: when the
\* function returned, the call returns that value, whatever the cache
\* backend did on read or on write.
C28_CacheFailuresAreHidden ==
    \A i \in DOMAIN cLog :
        /\ cLog[i].func.kind = "returns" =>
              cLog[i].kind = "returns" /\ cLog[i].value = cLog[i].func.value
        /\ cLog[i].kind = "raises" => cLog[i].func.kind = "raises"

\* C29: get_cache_key is injective: calls of cached functions that differ in
\* prefix, in a positional argument's value or type, or in a keyword argument
\* have different keys, and so no call is answered with a value stored for a
\* different call.
C29_KeyInjective ==
    /\ \A i, j \in DOMAIN cLog :
          cLog[i].call # cLog[j].call => cLog[i].key # cLog[j].key
    /\ \A i \in DOMAIN cLog :
          (cLog[i].kind = "returns" /\ ~cLog[i].value.none) => cLog[i].value.of = cLog[i].call

(***************************************************************************)
(* Claims about the lightcurve downloads                                   *)
(***************************************************************************)
\* C30: whatever strategies and fallbacks ran, a lightcurve that is returned
\* was retrieved for the requested target: its target_id is the requested
\* one and its data was not fetched under another identifier.
C30_LightcurveIsOfTarget ==
    (lPc = "done" /\ lResp.status = 200) =>
        /\ lResp.target_id = lReq.target_id
        /\ lResp.data_of = lReq.target_id

(***************************************************************************)
(* Claims about loading                                                    *)
(***************************************************************************)
\* Two threads hold the results of calls of the same function with the same
\* argument, each of which found nothing cached when it started.
BothLoadedFirst(t, u) ==
    /\ t # u
    /\ tPc[t] = "returned" /\ tPc[u] = "returned"
    /\ tCall[t].fn = tCall[u].fn
    /\ tCall[t].arg = tCall[u].arg
    /\ tCall[t].miss /\ tCall[u].miss
    /\ tGot[t].kind = "ok" /\ tGot[u].kind = "ok"

\* C10: concurrent first loads of one mission collapse into one: only one of
\* the callers read the files, and all of them hold the same object.
C10_ConcurrentLoadsCollapse ==
    \A t, u \in Threads :
        BothLoadedFirst(t, u) =>
            /\ tGot[t].obj = tGot[u].obj
            /\ ~(tGot[t].reads > 0 /\ tGot[u].reads > 0)

\* The key under which a call's result is cached: lru_cache keys on the
\* argument as passed, get_classifier on the upper-cased mission.
CacheKey(e) == IF e.fn = "get_classifier" THEN Upper(e.arg) ELSE e.arg

\* C11: of two successful loads of one mission that follow each other
\* (get_model_info(m) twice or get_classifier(m) twice), the second returns
\* the object the first returned and reads no file.
C11_SecondLoadIsCached ==
    \A i \in 1..(Len(loadLog) - 1) :
        LET first == loadLog[i]
            second == loadLog[i + 1]
        IN  (/\ first.fn = second.fn
             /\ CacheKey(first) = CacheKey(second)
             /\ first.kind = "ok" /\ second.kind = "ok") =>
                /\ second.obj = first.obj
                /\ second.reads = 0

C11_Witness ==
    /\ Len(loadLog) = 3
    /\ loadLog[1].fn = "get_model_info" /\ loadLog[1].arg = K2 /\ loadLog[1].reads = 3
    /\ loadLog[2].fn = "get_model_info" /\ loadLog[2].arg = K2 /\ loadLog[2].reads = 0
    /\ loadLog[2].obj = loadLog[1].obj
    /\ loadLog[3].fn = "get_classifier" /\ loadLog[3].kind = "ok"

\* get_model_info calls that loaded mission m from the files with success
LoadsOf(m) ==
    { i \in DOMAIN loadLog :
        /\ loadLog[i].fn = "get_model_info"
        /\ Upper(loadLog[i].arg) = m
        /\ loadLog[i].kind = "ok"
        /\ loadLog[i].reads > 0 }

\* C12: whatever calls the predict router makes, in whatever letter case the
\* mission comes, a mission's files are loaded at most once after a load of it
\* succeeded, and the cache holds at most one entry per mission.
C12_LoadedOncePerMission ==
    /\ \A m \in {TESS, KEPLER, K2} : Cardinality(LoadsOf(m)) <= 1
    /\ \A i, j \in DOMAIN lru : Upper(lru[i].key) = Upper(lru[j].key) => i = j

InitParse ==
    /\ target \in ParseTargets
    /\ parsed = NotParsed
    /\ rPc = "idle"
    /\ rTarget = <<>>
    /\ rQueries = <<>>
    /\ rLookup = LookupNone
    /\ rResp = NoResponse
    /\ store = StoreTrained
    /\ lru = <<>>
    /\ fileReads = NoReads
    /\ heap = 0
    /\ pPc = "idle"
    /\ pReq = NoRequest
    /\ pInfo = NoInfo
    /\ pData = NoRow
    /\ pVector = NoVector
    /\ pScore = NoScore
    /\ pTrace = <<>>
    /\ pQueries = <<>>
    /\ pResp = NoResult
    /\ clsCache = [m \in {TESS, KEPLER, K2} |-> NoClassifier]
    /\ tPc = [t \in Threads |-> "idle"]
    /\ tCall = [t \in Threads |-> NoCall]
    /\ tGot = [t \in Threads |-> NoGot]
    /\ calls = 0
    /\ loadLog = <<>>
    /\ diskcache = EmptyCache
    /\ cCall = NoCachedCall
    /\ cLog = <<>>
    /\ lPc = "idle"
    /\ lReq = NoLightcurveRequest
    /\ lTried = <<>>
    /\ lResp = NoLightcurve

NextParse == Parse

SpecParse == InitParse /\ [][NextParse]_vars

InitResolve ==
    /\ target = <<>>
    /\ parsed = NotParsed
    /\ rPc = "idle"
    /\ rTarget = <<>>
    /\ rQueries = <<>>
    /\ rLookup = LookupNone
    /\ rResp = NoResponse
    /\ store = StoreTrained
    /\ lru = <<>>
    /\ fileReads = NoReads
    /\ heap = 0
    /\ pPc = "idle"
    /\ pReq = NoRequest
    /\ pInfo = NoInfo
    /\ pData = NoRow
    /\ pVector = NoVector
    /\ pScore = NoScore
    /\ pTrace = <<>>
    /\ pQueries = <<>>
    /\ pResp = NoResult
    /\ clsCache = [m \in {TESS, KEPLER, K2} |-> NoClassifier]
    /\ tPc = [t \in Threads |-> "idle"]
    /\ tCall = [t \in Threads |-> NoCall]
    /\ tGot = [t \in Threads |-> NoGot]
    /\ calls = 0
    /\ loadLog = <<>>
    /\ diskcache = EmptyCache
    /\ cCall = NoCachedCall
    /\ cLog = <<>>
    /\ lPc = "idle"
    /\ lReq = NoLightcurveRequest
    /\ lTried = <<>>
    /\ lResp = NoLightcurve

SpecResolve == InitResolve /\ [][ResolveNext]_vars

\* A fresh process (nothing cached, nothing read yet) or one that has served
\* a TESS request before, on a model directory of either kind.
WarmedWithTess(st) == <<[key |-> TESS, value |-> Artifact(1, LoadModelInfo(st, TESS).info)]>>

InitPredict ==
    /\ target = <<>>
    /\ parsed = NotParsed
    /\ rPc = "idle"
    /\ rTarget = <<>>
    /\ rQueries = <<>>
    /\ rLookup = LookupNone
    /\ rResp = NoResponse
    /\ store \in PredictStores
    /\ \E warm \in BOOLEAN :
         /\ lru = IF warm THEN WarmedWithTess(store) ELSE <<>>
         /\ fileReads = IF warm THEN CountReads(NoReads, ModelPaths(TESS), 3) ELSE NoReads
         /\ heap = IF warm THEN 1 ELSE 0
    /\ pPc = "idle"
    /\ pReq = NoRequest
    /\ pInfo = NoInfo
    /\ pData = NoRow
    /\ pVector = NoVector
    /\ pScore = NoScore
    /\ pTrace = <<>>
    /\ pQueries = <<>>
    /\ pResp = NoResult
    /\ clsCache = [m \in {TESS, KEPLER, K2} |-> NoClassifier]
    /\ tPc = [t \in Threads |-> "idle"]
    /\ tCall = [t \in Threads |-> NoCall]
    /\ tGot = [t \in Threads |-> NoGot]
    /\ calls = 0
    /\ loadLog = <<>>
    /\ diskcache = EmptyCache
    /\ cCall = NoCachedCall
    /\ cLog = <<>>
    /\ lPc = "idle"
    /\ lReq = NoLightcurveRequest
    /\ lTried = <<>>
    /\ lResp = NoLightcurve

SpecPredict == InitPredict /\ [][NextPredict]_vars

InitLoad ==
    /\ target = <<>>
    /\ parsed = NotParsed
    /\ rPc = "idle"
    /\ rTarget = <<>>
    /\ rQueries = <<>>
    /\ rLookup = LookupNone
    /\ rResp = NoResponse
    /\ store \in PredictStores
    /\ lru = <<>>
    /\ fileReads = NoReads
    /\ heap = 0
    /\ pPc = "idle"
    /\ pReq = NoRequest
    /\ pInfo = NoInfo
    /\ pData = NoRow
    /\ pVector = NoVector
    /\ pScore = NoScore
    /\ pTrace = <<>>
    /\ pQueries = <<>>
    /\ pResp = NoResult
    /\ clsCache = [m \in {TESS, KEPLER, K2} |-> NoClassifier]
    /\ tPc = [t \in Threads |-> "idle"]
    /\ tCall = [t \in Threads |-> NoCall]
    /\ tGot = [t \in Threads |-> NoGot]
    /\ calls = 0
    /\ loadLog = <<>>
    /\ diskcache = EmptyCache
    /\ cCall = NoCachedCall
    /\ cLog = <<>>
    /\ lPc = "idle"
    /\ lReq = NoLightcurveRequest
    /\ lTried = <<>>
    /\ lResp = NoLightcurve

SpecLoad == InitLoad /\ [][NextLoad]_vars

InitSequential ==
    /\ target = <<>>
    /\ parsed = NotParsed
    /\ rPc = "idle"
    /\ rTarget = <<>>
    /\ rQueries = <<>>
    /\ rLookup = LookupNone
    /\ rResp = NoResponse
    /\ store = StoreTrained
    /\ lru = <<>>
    /\ fileReads = NoReads
    /\ heap = 0
    /\ pPc = "idle"
    /\ pReq = NoRequest
    /\ pInfo = NoInfo
    /\ pData = NoRow
    /\ pVector = NoVector
    /\ pScore = NoScore
    /\ pTrace = <<>>
    /\ pQueries = <<>>
    /\ pResp = NoResult
    /\ clsCache = [m \in {TESS, KEPLER, K2} |-> NoClassifier]
    /\ tPc = [t \in Threads |-> "idle"]
    /\ tCall = [t \in Threads |-> NoCall]
    /\ tGot = [t \in Threads |-> NoGot]
    /\ calls = 0
    /\ loadLog = <<>>
    /\ diskcache = EmptyCache
    /\ cCall = NoCachedCall
    /\ cLog = <<>>
    /\ lPc = "idle"
    /\ lReq = NoLightcurveRequest
    /\ lTried = <<>>
    /\ lResp = NoLightcurve

SpecSequential == InitSequential /\ [][NextSequential]_vars

\* One target is resolved, then predicted with the resolved identifier.
NextEndToEnd ==
    \/ ResolveStart
    \/ ToiQueryDone
    \/ KoiQuery1Done
    \/ KoiQuery2Done
    \/ PredictResolved
    \/ LoadDone
    \/ FetchDone
    \/ ScoreDone

InitEndToEnd ==
    /\ target = <<>>
    /\ parsed = NotParsed
    /\ rPc = "idle"
    /\ rTarget = <<>>
    /\ rQueries = <<>>
    /\ rLookup = LookupNone
    /\ rResp = NoResponse
    /\ store = StoreTrained
    /\ lru = <<>>
    /\ fileReads = NoReads
    /\ heap = 0
    /\ pPc = "idle"
    /\ pReq = NoRequest
    /\ pInfo = NoInfo
    /\ pData = NoRow
    /\ pVector = NoVector
    /\ pScore = NoScore
    /\ pTrace = <<>>
    /\ pQueries = <<>>
    /\ pResp = NoResult
    /\ clsCache = [m \in {TESS, KEPLER, K2} |-> NoClassifier]
    /\ tPc = [t \in Threads |-> "idle"]
    /\ tCall = [t \in Threads |-> NoCall]
    /\ tGot = [t \in Threads |-> NoGot]
    /\ calls = 0
    /\ loadLog = <<>>
    /\ diskcache = EmptyCache
    /\ cCall = NoCachedCall
    /\ cLog = <<>>
    /\ lPc = "idle"
    /\ lReq = NoLightcurveRequest
    /\ lTried = <<>>
    /\ lResp = NoLightcurve

SpecEndToEnd == InitEndToEnd /\ [][NextEndToEnd]_vars


InitCache ==
    /\ target = <<>>
    /\ parsed = NotParsed
    /\ rPc = "idle"
    /\ rTarget = <<>>
    /\ rQueries = <<>>
    /\ rLookup = LookupNone
    /\ rResp = NoResponse
    /\ store = StoreTrained
    /\ lru = <<>>
    /\ fileReads = NoReads
    /\ heap = 0
    /\ pPc = "idle"
    /\ pReq = NoRequest
    /\ pInfo = NoInfo
    /\ pData = NoRow
    /\ pVector = NoVector
    /\ pScore = NoScore
    /\ pTrace = <<>>
    /\ pQueries = <<>>
    /\ pResp = NoResult
    /\ clsCache = [m \in {TESS, KEPLER, K2} |-> NoClassifier]
    /\ tPc = [t \in Threads |-> "idle"]
    /\ tCall = [t \in Threads |-> NoCall]
    /\ tGot = [t \in Threads |-> NoGot]
    /\ calls = 0
    /\ loadLog = <<>>
    /\ diskcache = EmptyCache
    /\ cCall = NoCachedCall
    /\ cLog = <<>>
    /\ lPc = "idle"
    /\ lReq = NoLightcurveRequest
    /\ lTried = <<>>
    /\ lResp = NoLightcurve

SpecCache == InitCache /\ [][NextCache]_vars

InitLightcurve ==
    /\ target = <<>>
    /\ parsed = NotParsed
    /\ rPc = "idle"
    /\ rTarget = <<>>
    /\ rQueries = <<>>
    /\ rLookup = LookupNone
    /\ rResp = NoResponse
    /\ store = StoreTrained
    /\ lru = <<>>
    /\ fileReads = NoReads
    /\ heap = 0
    /\ pPc = "idle"
    /\ pReq = NoRequest
    /\ pInfo = NoInfo
    /\ pData = NoRow
    /\ pVector = NoVector
    /\ pScore = NoScore
    /\ pTrace = <<>>
    /\ pQueries = <<>>
    /\ pResp = NoResult
    /\ clsCache = [m \in {TESS, KEPLER, K2} |-> NoClassifier]
    /\ tPc = [t \in Threads |-> "idle"]
    /\ tCall = [t \in Threads |-> NoCall]
    /\ tGot = [t \in Threads |-> NoGot]
    /\ calls = 0
    /\ loadLog = <<>>
    /\ diskcache = EmptyCache
    /\ cCall = NoCachedCall
    /\ cLog = <<>>
    /\ lPc = "idle"
    /\ lReq = NoLightcurveRequest
    /\ lTried = <<>>
    /\ lResp = NoLightcurve

SpecLightcurve == InitLightcurve /\ [][NextLightcurve]_vars

====
